---- MODULE Spec2Model ----
(***************************************************************************)
(* Verification model of the form-scripting engine: the event dispatcher   *)
(* (scripting_api/event.js), the QuickJS sandbox front-end and the         *)
(* capability proxies of the postMessage sandbox (objectProxyHandler,      *)
(* sandbox/sandbox.js).                                                    *)
(***************************************************************************)
EXTENDS Integers, Sequences, FiniteSets, TLC

VARIABLES
  \* ---- scripting_api: App / Doc / Field / EventDispatcher ----
  actions,           \* Field._actions of every registered field: id -> trigger -> scripts
  calculationOrder,  \* EventDispatcher._calculationOrder
  fieldValue,        \* Field.value of every registered field (obj.value)
  docEvent,          \* Doc._event
  globalEvent,       \* the sandbox global `event` written by the inline App._dispatchEvent
  sent,              \* messages handed to the host through send()
  log,               \* history of the steps of the last dispatch
  lastEvent,         \* the message of the last dispatch, NoEvent before it
  \* ---- QuickJSSandbox / Sandbox ----
  modulePromise,     \* state of ModuleLoader().then(module => new Sandbox(module))
  reactions,         \* callbacks attached to the promise while it is pending
  jobs,              \* promise jobs ready to run, in queue order
  issued,            \* the calls the host has made, in order
  executed,          \* the calls that have run against the Sandbox, in order
  dispatchEventName, \* Sandbox.dispatchEventName
  appEntry,          \* the entry name the interpreter's `app` answers to, Null without a bundle
  bootstrap,         \* send/setTimeout/... are still resolvable in the interpreter
  evals,             \* history of the texts handed to Sandbox._eval
  raised,            \* errors thrown out of the callbacks
  timers,            \* timers installed through app.setTimeOut / app.setInterval
  delivered,         \* messages the interpreter handed to the host through send
  tornDown,          \* the host has given up the sandbox instance
  evalThrows,        \* whether the interpreter's eval reports a script error by throwing
  \* ---- objectProxyHandler and the proxied context of sandbox.js ----
  realProps,         \* own properties of the wrapped objects
  fakeProps,         \* own properties of each object's _fake bag
  ctxGlobal,         \* own properties of Context.global
  posted,            \* messages given to window.postMessage by Sender.send
  lastOp,            \* the last trap taken, with its outcome
  \* ---- the unsupported members of App and Doc ----
  apiLog,            \* the accesses a script has made, each with its outcome
  \* ---- MessageHandler of the postMessage sandbox ----
  hObjects,          \* MessageHandler._objects: id -> the Field registered by a Create
  hLast,             \* the last message handled, with its outcome
  hCount,            \* how many messages have been handled
  \* ---- scripting_api/code_gen.js ----
  genInput,          \* the objects given to generateCode and the random draws it made
  genResult,         \* what generateCode returned and what its code registers
  \* ---- class Util ----
  scandCache,        \* the property scandCache of the Util object, as scand reads it
  utilLast,          \* the last call of printd / scand, with its outcome
  utilCount,         \* how many calls a script has made
  numLast,           \* the last call of printf, with its outcome
  numCount,          \* how many calls of printf a script has made
  callLast,          \* the last call of a public method, with its outcome
  callCount,         \* how many calls of public methods a script has made
  listening,         \* the sandbox page has registered its message listener
  messageHandler,    \* window.messageHandler
  received,          \* how many messages were posted to the sandbox page
  pageLast,          \* the last message posted to the page
  created,           \* the actions the Field of the page was created with
  listeners,         \* the Listeners of that Field
  lsnLast            \* the last use of the Listeners, with its outcome

dispVars == <<actions, calculationOrder, fieldValue, docEvent, globalEvent,
              sent, log, lastEvent>>

sbxVars == <<modulePromise, reactions, jobs, issued, executed, dispatchEventName,
             appEntry, bootstrap, evals, raised, timers, delivered, tornDown,
             evalThrows>>

proxyVars == <<realProps, fakeProps, ctxGlobal, posted, lastOp>>

apiVars == <<apiLog>>

\* the variables outside the dispatcher, the QuickJS front-end and the proxies
handlerVars == <<hObjects, hLast, hCount>>

genVars == <<genInput, genResult>>

utilVars == <<scandCache, utilLast, utilCount>>

printfVars == <<numLast, numCount>>

callVars == <<callLast, callCount>>

pageVars == <<listening, messageHandler, received, pageLast, created, listeners, lsnLast>>

moreVars == <<apiVars, handlerVars, genVars, utilVars, printfVars, callVars, pageVars>>

vars == <<dispVars, sbxVars, proxyVars, moreVars>>

-----------------------------------------------------------------------------
(* Bounds of the model.                                                    *)
MaxOrderLen == 2
MaxCalls == 3
MaxTraps == 2
MaxAccesses == 2
MaxMessages == 3
MaxDraws == 2
MaxUses == 2
MaxPrints == 2
MaxFields == 2

-----------------------------------------------------------------------------
(* Values.                                                                 *)
Null == "<null>"
NoEvent == [kind |-> "none"]

\* A Format script renders a value; rendering a rendered value changes nothing
\* (as Number.toFixed does on its own output).
Rendered == {"a$", "b$", "c$", "X$"}
Fmt(v) == IF v \in Rendered \/ v = Null \/ v = "" THEN v ELSE v \o "$"

\* ids known to the generated code (code_gen.js registers one Field per entry)
FieldIds == {"A", "B", "C"}
\* an id of a field that has been removed: never in the registry
StaleId == "Z"
AllIds == FieldIds \cup {StaleId}

Triggers == {"KeyStroke", "Validate", "Calculate", "Format", "MouseUp"}

\* Script bodies, by what they do to the shared Event and to the fields.
Nop == [op |-> "nop", arg |-> ""]
Set(v) == [op |-> "set", arg |-> v]         \* event.value = v
Reject == [op |-> "reject", arg |-> ""]     \* event.rc = false
Throw == [op |-> "throw", arg |-> ""]       \* throw new Error()
Read(f) == [op |-> "read", arg |-> f]       \* event.value = <field f>.value
Render == [op |-> "fmt", arg |-> ""]        \* event.value = rendering of event.value

NoActions == [t \in Triggers |-> <<>>]
Profile(k, v, c, f) ==
  [NoActions EXCEPT !["KeyStroke"] = k, !["Validate"] = v,
                    !["Calculate"] = c, !["Format"] = f]

\* The action lists a document may give to a field.
Plain == NoActions
Setter == Profile(<<>>, <<>>, <<Set("X")>>, <<Render>>)
Reader == Profile(<<>>, <<>>, <<Read("A")>>, <<>>)
Refuser == Profile(<<Nop>>, <<Reject>>, <<Set("X")>>, <<Render>>)
Thrower == Profile(<<Throw, Set("b")>>, <<>>, <<Throw, Set("b")>>, <<>>)
Mixed == Profile(<<Set("b")>>, <<Throw, Set("b")>>, <<Reject, Set("X")>>, <<Render>>)
Mirror == Profile(<<>>, <<>>, <<Read("B")>>, <<>>)

\* The documents: what each field of the registry carries.
Documents ==
  { [A |-> a, B |-> b, C |-> c] :
      a \in {Plain, Setter, Thrower, Mixed, Mirror},
      b \in {Reader, Refuser, Setter, Thrower},
      c \in {Plain, Refuser, Thrower, Mixed} }

RECURSIVE SeqsUpTo(_, _)
SeqsUpTo(S, n) ==
  IF n = 0 THEN {<<>>}
  ELSE LET shorter == SeqsUpTo(S, n - 1)
       IN shorter \cup {Append(s, x) : s \in shorter, x \in S}

CalculationOrders == SeqsUpTo(AllIds, MaxOrderLen)

InitialValue == [f \in FieldIds |-> IF f = "A" THEN "a" ELSE IF f = "B" THEN "b" ELSE "c"]

-----------------------------------------------------------------------------
(* Messages to the host.                                                   *)
UpdateMsg(id, prop, v) == [type |-> "Update", id |-> id, prop |-> prop, value |-> v]
ErrorMsg(id, trigger) == [type |-> "Error", id |-> id, prop |-> trigger, value |-> ""]

\* One entry of the history of a dispatch.
Entry(kind, pos, field, trig, v, rc, idx) ==
  [kind |-> kind, pos |-> pos, field |-> field, trig |-> trig,
   value |-> v, rc |-> rc, idx |-> idx, source |-> Null]

Logged(m, e) == [m EXCEPT !.log = Append(@, e)]

-----------------------------------------------------------------------------
(* class Event (event.js).                                                 *)
NewEvent(data) ==
  [name |-> data.name,
   rc |-> TRUE,
   source |-> Null,
   target |-> Null,
   value |-> IF data.value = "" THEN Null ELSE data.value,
   willCommit |-> data.willCommit]

\* new Event(data) as the made-th Event of the dispatch: the object is told
\* from the others by its serial
Created(m, data) ==
  [m EXCEPT !.made = @ + 1,
            !.ev = [name |-> NewEvent(data).name,
                    rc |-> NewEvent(data).rc,
                    source |-> NewEvent(data).source,
                    target |-> NewEvent(data).target,
                    value |-> NewEvent(data).value,
                    willCommit |-> NewEvent(data).willCommit,
                    serial |-> m.made + 1]]

\* String.prototype.replace(" ", ""): the first space only.
RECURSIVE ReplaceFirstSpace(_)
ReplaceFirstSpace(s) ==
  IF s = "" THEN ""
  ELSE IF SubSeq(s, 1, 1) = " " THEN SubSeq(s, 2, Len(s))
  ELSE SubSeq(s, 1, 1) \o ReplaceFirstSpace(SubSeq(s, 2, Len(s)))

-----------------------------------------------------------------------------
(* The machine state m threaded through one dispatch:                      *)
(*   val   Field.value of every field, ev  the shared Event,               *)
(*   sent  the messages sent,          log the history, pos the index of   *)
(*   the calculation-order iteration in progress (0 outside the pass).     *)

\* ProxyHandler.set on a public property of a field: wrapped.value = v
ProxySetValue(m, id, v) ==
  Logged([m EXCEPT !.val[id] = v,
                   !.sent = Append(@, UpdateMsg(id, "value", v))],
         Entry("update", m.pos, id, m.ev.name, v, TRUE, 0))

\* One script body run against the shared Event.
RunScript(m, s) ==
  CASE s.op = "set" -> [m EXCEPT !.ev.value = s.arg]
    [] s.op = "reject" -> [m EXCEPT !.ev.rc = FALSE]
    [] s.op = "fmt" -> [m EXCEPT !.ev.value = Fmt(@)]
    [] s.op = "read" ->
         LET v == IF s.arg \in DOMAIN m.val THEN m.val[s.arg] ELSE Null
         IN Logged([m EXCEPT !.ev.value = v],
                   Entry("read", m.pos, s.arg, m.ev.name, v, TRUE, 0))
    [] OTHER -> m

\* One action of Field._runActions: an exception of the script is reported
\* to the host with the field id and the trigger.
RunAction(m, id, s, i) ==
  IF s.op = "throw"
  THEN [Logged(m, Entry("script", m.pos, id, m.ev.name, m.ev.value, FALSE, i))
          EXCEPT !.sent = Append(@, ErrorMsg(id, m.ev.name))]
  ELSE RunScript(Logged(m, Entry("script", m.pos, id, m.ev.name, m.ev.value, TRUE, i)), s)

\* Field._runActions: the scripts registered for event.name, one by one; an
\* exception of one script is reported to the host and the next script runs.
RECURSIVE RunActionList(_, _, _, _)
RunActionList(m, id, acts, i) ==
  IF i > Len(acts) THEN m
  ELSE RunActionList(RunAction(m, id, acts[i], i), id, acts, i + 1)

HasActions(id, trigger) ==
  /\ trigger \in Triggers
  /\ actions[id][trigger] # <<>>

Field_runActions(m, id) ==
  IF HasActions(id, m.ev.name)
  THEN RunActionList(m, id, actions[id][m.ev.name], 1)
  ELSE m

\* the Event as the first script of a step finds it
Observed(m) ==
  Logged(m, [Entry("step", m.pos, m.ev.target, m.ev.name, m.ev.value, m.ev.rc,
                   m.ev.serial)
               EXCEPT !.source = m.ev.source])

\* Mutant of runActions: rc is left as the step before left it.
BeginStep_KeepsRc(m, source, target, eventName) ==
  Observed([m EXCEPT !.ev.source = source, !.ev.target = target,
                     !.ev.name = eventName])

\* EventDispatcher.runActions, lines 83-86
BeginStep(m, source, target, eventName) ==
  Observed([m EXCEPT !.ev.source = source, !.ev.target = target,
                     !.ev.name = eventName, !.ev.rc = TRUE])

\* EventDispatcher.runActions, lines 87-90: what the caller finds in event
EndStep(m, target, eventName) ==
  Logged(m, Entry("end", m.pos, target, eventName, m.ev.value, m.ev.rc, 0))

\* Mutant of runActions: a step without actions leaves rc false.
runActions_EmptyRejects(m, source, target, eventName) ==
  IF HasActions(target, eventName)
  THEN EndStep(Field_runActions(BeginStep(m, source, target, eventName), target),
               target, eventName)
  ELSE EndStep([BeginStep(m, source, target, eventName) EXCEPT !.ev.rc = FALSE],
               target, eventName)

\* EventDispatcher.runActions
runActions(m, source, target, eventName) ==
  EndStep(Field_runActions(BeginStep(m, source, target, eventName), target),
          target, eventName)

\* if (oldValue !== event.value) obj.value = event.value
StoreIfChanged(m, id, oldValue) ==
  IF oldValue # m.ev.value
  THEN Logged([m EXCEPT !.val[id] = m.ev.value],
              Entry("commit", m.pos, id, "Validate", m.ev.value, TRUE, 0))
  ELSE m

\* if (oldValue !== event.value) wrapped.value = event.value
WriteIfChanged(m, id, oldValue) ==
  IF oldValue # m.ev.value THEN ProxySetValue(m, id, m.ev.value) ELSE m

\* runCalculate, lines 111-118
FormatTarget(m, targetId, oldValue) ==
  WriteIfChanged(runActions(StoreIfChanged(m, targetId, oldValue),
                            targetId, targetId, "Format"),
                 targetId, oldValue)

\* Mutant of runCalculate: the rc left by the target's Validate is not tested.
AfterTargetValidate_IgnoreRc(m, targetId, oldValue) ==
  FormatTarget(m, targetId, oldValue)

\* runCalculate, lines 107-118
AfterTargetValidate(m, targetId, oldValue) ==
  IF ~m.ev.rc THEN m ELSE FormatTarget(m, targetId, oldValue)

\* One iteration of the loop of EventDispatcher.runCalculate
CalculateTargetOn(m, source, targetId) ==
  AfterTargetValidate(
    runActions(runActions([m EXCEPT !.ev.value = m.val[targetId]],
                          source, targetId, "Calculate"),
               targetId, targetId, "Validate"),
    targetId, m.val[targetId])

\* Mutant of runCalculate: every target is given an Event of its own.
CalculateTarget_FreshEvent(m, source, targetId) ==
  CalculateTargetOn(Created(m, [name |-> "Calculate", value |-> m.ev.value,
                                willCommit |-> m.ev.willCommit]),
                    source, targetId)

\* Mutant of runCalculate: a Calculate step that leaves rc false ends the
\* iteration.
CalculateTarget_CalculateRcCounts(m, source, targetId) ==
  IF ~runActions([m EXCEPT !.ev.value = m.val[targetId]],
                 source, targetId, "Calculate").ev.rc
  THEN runActions([m EXCEPT !.ev.value = m.val[targetId]], source, targetId, "Calculate")
  ELSE CalculateTargetOn(m, source, targetId)

CalculateTarget(m, source, targetId) ==
  AfterTargetValidate(
    runActions(runActions([m EXCEPT !.ev.value = m.val[targetId]],
                          source, targetId, "Calculate"),
               targetId, targetId, "Validate"),
    targetId, m.val[targetId])

RECURSIVE CalculateFrom(_, _, _)
CalculateFrom(m, source, i) ==
  IF i > Len(calculationOrder) THEN [m EXCEPT !.pos = 0]
  ELSE IF calculationOrder[i] \notin DOMAIN m.val
       THEN CalculateFrom(m, source, i + 1)
       ELSE CalculateFrom(CalculateTarget([m EXCEPT !.pos = i], source,
                                          calculationOrder[i]),
                          source, i + 1)

\* Mutant of runCalculate: the pass walks the calculation order backwards.
RECURSIVE CalculateDownFrom(_, _, _)
CalculateDownFrom(m, source, i) ==
  IF i < 1 THEN [m EXCEPT !.pos = 0]
  ELSE IF calculationOrder[i] \notin DOMAIN m.val
       THEN CalculateDownFrom(m, source, i - 1)
       ELSE CalculateDownFrom(CalculateTarget([m EXCEPT !.pos = i], source,
                                              calculationOrder[i]),
                              source, i - 1)

runCalculate_Backwards(m, source) ==
  IF Len(calculationOrder) = 0 THEN m
  ELSE CalculateDownFrom(m, source, Len(calculationOrder))

\* Mutant of runCalculate: an exception of a script ends the pass.
SentError(before, after) ==
  \E k \in (Len(before.sent) + 1)..Len(after.sent) : after.sent[k].type = "Error"

RECURSIVE CalculateUntilError(_, _, _)
RECURSIVE StopOrGoOn(_, _, _, _)
StopOrGoOn(before, after, source, i) ==
  IF SentError(before, after) THEN [after EXCEPT !.pos = 0]
  ELSE CalculateUntilError(after, source, i + 1)

CalculateUntilError(m, source, i) ==
  IF i > Len(calculationOrder) THEN [m EXCEPT !.pos = 0]
  ELSE IF calculationOrder[i] \notin DOMAIN m.val
       THEN CalculateUntilError(m, source, i + 1)
       ELSE StopOrGoOn(m, CalculateTarget([m EXCEPT !.pos = i], source,
                                          calculationOrder[i]),
                       source, i)

runCalculate_StopOnError(m, source) ==
  IF Len(calculationOrder) = 0 THEN m ELSE CalculateUntilError(m, source, 1)

\* Mutant of runCalculate: the pass is repeated once.
runCalculate_Twice(m, source) ==
  IF Len(calculationOrder) = 0 THEN m
  ELSE CalculateFrom(CalculateFrom(m, source, 1), source, 1)

\* EventDispatcher.runCalculate
runCalculate(m, source) ==
  IF Len(calculationOrder) = 0 THEN m ELSE CalculateFrom(m, source, 1)

\* runValidation, lines 74-78
FormatSource(m, source, oldValue) ==
  WriteIfChanged(runActions([m EXCEPT !.ev.value = oldValue],
                            source, source, "Format"),
                 source, oldValue)

\* Mutant of runValidation: event.value is not restored after the pass.
CommitSource_NoRestore(m, source, oldValue) ==
  WriteIfChanged(runActions(runCalculate(StoreIfChanged(m, source, oldValue), source),
                            source, source, "Format"),
                 source,
                 IF oldValue # m.ev.value THEN m.ev.value ELSE oldValue)

\* runValidation, lines 68-78: oldValue becomes event.value when they differ
CommitSource(m, source, oldValue) ==
  FormatSource(runCalculate(StoreIfChanged(m, source, oldValue), source),
               source,
               IF oldValue # m.ev.value THEN m.ev.value ELSE oldValue)

\* runValidation, lines 67-79
AfterSourceValidate(m, source, oldValue) ==
  IF m.ev.rc THEN CommitSource(m, source, oldValue) ELSE m

\* Mutant of runValidation: the rc left by Validate is not tested.
runValidation_IgnoreRc(m, source) ==
  CommitSource(runActions(m, source, source, "Validate"), source, m.val[source])

\* EventDispatcher.runValidation
runValidation(m, source) ==
  AfterSourceValidate(runActions(m, source, source, "Validate"),
                      source, m.val[source])

\* dispatch, lines 58-60
ValidateIfCommit(m, source, name) ==
  IF name = "KeyStroke" /\ m.ev.willCommit THEN runValidation(m, source) ELSE m

\* Mutant of dispatch: the field's own actions run before the validation.
dispatchKnown_OwnActionsFirst(m, baseEvent) ==
  ValidateIfCommit(runActions(Created(m, baseEvent),
                              baseEvent.id, baseEvent.id,
                              ReplaceFirstSpace(baseEvent.name)),
                   baseEvent.id, ReplaceFirstSpace(baseEvent.name))

\* EventDispatcher.dispatch, past its guard
dispatchKnown(m, baseEvent) ==
  runActions(ValidateIfCommit(Created(m, baseEvent),
                              baseEvent.id, ReplaceFirstSpace(baseEvent.name)),
             baseEvent.id, baseEvent.id, ReplaceFirstSpace(baseEvent.name))

\* Mutant of dispatch: the Event is created before the registry is consulted.
dispatch_EventBeforeGuard(m, baseEvent) ==
  IF baseEvent.id \notin DOMAIN m.val
  THEN Created(m, baseEvent)
  ELSE dispatchKnown(m, baseEvent)

\* EventDispatcher.dispatch
dispatch(m, baseEvent) ==
  IF baseEvent.id \notin DOMAIN m.val THEN m ELSE dispatchKnown(m, baseEvent)

-----------------------------------------------------------------------------
(* The inline dispatch of the App class that carries no EventDispatcher.   *)

\* class Event local to App._dispatchEvent: rc is data.rc, which the host
\* does not supply
InlineEvent(data, wrapped) ==
  [name |-> data.name,
   rc |-> Null,
   source |-> wrapped,
   target |-> wrapped,
   value |-> IF data.value = "" THEN Null ELSE data.value,
   willCommit |-> data.willCommit]

\* try { for (const action of actions[name]) action(); } catch { send(error) }
RECURSIVE RunActionsInTry(_, _, _, _, _)
RunActionsInTry(m, id, name, acts, i) ==
  IF i > Len(acts) THEN m
  ELSE IF acts[i].op = "throw"
       THEN [Logged(m, Entry("script", 0, id, name, m.ev.value, FALSE, i))
               EXCEPT !.sent = Append(@, ErrorMsg(id, m.ev.name))]
       ELSE RunActionsInTry(
              RunScript(Logged(m, Entry("script", 0, id, name, m.ev.value, TRUE, i)),
                        acts[i]),
              id, name, acts, i + 1)

\* App._dispatchEvent (inline version)
App_dispatchEvent(m, pdfEvent) ==
  IF pdfEvent.id \notin DOMAIN m.val THEN m
  ELSE IF ~HasActions(pdfEvent.id, ReplaceFirstSpace(pdfEvent.name)) THEN m
  ELSE RunActionsInTry([m EXCEPT !.ev = InlineEvent(pdfEvent, pdfEvent.id)],
                       pdfEvent.id, ReplaceFirstSpace(pdfEvent.name),
                       actions[pdfEvent.id][ReplaceFirstSpace(pdfEvent.name)], 1)

-----------------------------------------------------------------------------
(* The inbound messages.                                                   *)
EventNames == {"KeyStroke", "Key Stroke", "Key  Stroke", "Mouse Up"}
EventValues == {"", "k"}

BaseEvents ==
  [kind : {"event"}, id : AllIds, name : EventNames,
   value : EventValues, willCommit : BOOLEAN]

InlineEvents ==
  [kind : {"inline"}, id : AllIds, name : EventNames,
   value : {"k"}, willCommit : {FALSE}]

Machine ==
  [val |-> fieldValue, ev |-> docEvent, sent |-> sent, log |-> <<>>, pos |-> 0,
   made |-> 0]

-----------------------------------------------------------------------------
(* The capability proxies of the postMessage sandbox.                      *)

Undefined == "<undefined>"

\* The wrapped objects: a Field created by a Create message (it has a sender)
\* and the Event of a dispatch (FakeObject(null): no sender).
FieldObj == "field"
EventObj == "event"
Wrapped == {FieldObj, EventObj}

OwnProps(o) ==
  IF o = FieldObj
  THEN [value |-> "v0", _id |-> "internal-id", _sender |-> "internal-sender"]
  ELSE [value |-> "v0", _sender |-> Null]

\* the names a script uses on a wrapped object, and the values it assigns
ObjectNames == {"value", "_id", "note", "__proto__"}
\* the identifiers a script resolves through the proxied context
ContextNames == {"console", "note", "hasOwnProperty", "AFNumber_Format", "_get"}
ScriptValues == {"s1", "s2"}

\* static members of class PublicMethods
PublicMethodsMembers == {"AFNumber_Format", "_get"}
MethodOf(name) == "method:" \o name

StartsWithUnderscore(name) == SubSeq(name, 1, 1) = "_"

\* isPublicProperty(obj, prop) of shared/util.js
isPublicProperty(members, prop) ==
  /\ ~StartsWithUnderscore(prop)
  /\ prop \in members

Outcome(n, op, o, prop, v, result, threw) ==
  [n |-> n, op |-> op, obj |-> o, prop |-> prop, value |-> v,
   result |-> result, threw |-> threw]

NoOp == Outcome(0, "none", "none", "none", Undefined, Undefined, FALSE)

\* x.hasOwnProperty(prop) on an ordinary object with own properties `own`: an
\* own property named hasOwnProperty shadows Object.prototype's method, and
\* calling a value that is no function throws a TypeError.
HasOwnThrows(own) == "hasOwnProperty" \in DOMAIN own

\* objectProxyHandler.get
ObjectGet(real, fake, prop) ==
  IF HasOwnThrows(fake) THEN [result |-> Undefined, threw |-> TRUE]
  ELSE IF prop \in DOMAIN fake THEN [result |-> fake[prop], threw |-> FALSE]
  ELSE IF isPublicProperty(DOMAIN real, prop) THEN [result |-> real[prop], threw |-> FALSE]
  ELSE [result |-> Undefined, threw |-> FALSE]

\* the message Sender.send(id, data) posts for data = {prop: value}
PostedMsg(id, prop, v) == [id |-> id, prop |-> prop, value |-> v]

Extended(f, k, v) == [x \in DOMAIN f \cup {k} |-> IF x = k THEN v ELSE f[x]]

\* obj._fake[prop] = value, value a primitive: an ordinary assignment, which
\* for __proto__ runs the setter inherited from Object.prototype; the setter
\* ignores a primitive and no own property is created.
FakeAssign(fake, prop, v) ==
  IF prop = "__proto__" THEN fake ELSE Extended(fake, prop, v)

\* Mutant of ObjectSet: the value is sent whatever the name is.
ObjectSet_AlwaysSends(real, fake, prop, v) ==
  LET msgs == IF real["_sender"] # Null
              THEN <<PostedMsg(real["_id"], prop, v)>> ELSE <<>>
  IN IF isPublicProperty(DOMAIN real, prop)
     THEN [real |-> [real EXCEPT ![prop] = v], fake |-> fake, msgs |-> msgs]
     ELSE [real |-> real, fake |-> FakeAssign(fake, prop, v), msgs |-> msgs]

\* objectProxyHandler.set
ObjectSet(real, fake, prop, v) ==
  IF isPublicProperty(DOMAIN real, prop)
  THEN [real |-> [real EXCEPT ![prop] = v],
        fake |-> fake,
        msgs |-> IF real["_sender"] # Null
                 THEN <<PostedMsg(real["_id"], prop, v)>> ELSE <<>>]
  ELSE [real |-> real, fake |-> FakeAssign(fake, prop, v), msgs |-> <<>>]

\* objectProxyHandler.has
ObjectHas(real, fake, prop) ==
  IF HasOwnThrows(fake) THEN [result |-> FALSE, threw |-> TRUE]
  ELSE [result |-> prop \in DOMAIN fake \/ isPublicProperty(DOMAIN real, prop),
        threw |-> FALSE]

\* has of the proxied context of MessageHandler
ContextHas(global, prop) == [result |-> TRUE, threw |-> FALSE]

\* get of the proxied context of MessageHandler
ContextGet(global, prop) ==
  IF HasOwnThrows(global) THEN [result |-> Undefined, threw |-> TRUE]
  ELSE IF prop \in DOMAIN global THEN [result |-> global[prop], threw |-> FALSE]
  ELSE IF isPublicProperty(PublicMethodsMembers, prop)
       THEN [result |-> MethodOf(prop), threw |-> FALSE]
  ELSE [result |-> Undefined, threw |-> FALSE]

\* set of the proxied context of MessageHandler
ContextSet(global, prop, v) == Extended(global, prop, v)

ProxiesFresh ==
  /\ realProps = [o \in Wrapped |-> OwnProps(o)]
  /\ fakeProps = [o \in Wrapped |-> <<>>]
  /\ ctxGlobal = [console |-> "Console"]
  /\ posted = <<>>
  /\ lastOp = NoOp

-----------------------------------------------------------------------------
(* The members of App and Doc that stand for Acrobat features the viewer   *)
(* does not offer.                                                         *)

\* App: accessor pairs whose get and set both throw NotSupportedError
AppUnsupportedAccessors ==
  {"constants", "fromPDFConverters", "fullscreen", "fs", "media", "monitors",
   "numPlugins", "printColorProfiles", "printerNames", "execMenuItem", "newDoc",
   "newFDF", "openDoc", "openFDF", "popUpMenuEx", "popUpMenu"}

\* App: methods with an empty body
AppEmptyMethods ==
  {"getNthPlugInName", "hideMenuItem", "listMenuItems", "listToolbarButtons"}

\* Doc: methods with an empty body
DocEmptyMethods == {"exportAsFDF", "exportAsXFDF", "importAnFDF", "importAnXFDF"}

\* how a script may use a member: read it, assign it, or call it
Accesses ==
  ({"app"} \X AppUnsupportedAccessors \X {"get", "set", "call"})
    \cup ({"app"} \X AppEmptyMethods \X {"call"})
    \cup ({"doc"} \X DocEmptyMethods \X {"call"})

\* The outcome of one use: a call of an accessor member reads it first.
Member_access(obj, member, kind) ==
  IF obj = "app" /\ member \in AppUnsupportedAccessors
  THEN "NotSupportedError"
  ELSE "undefined"

ApiIdle == apiLog = <<>>

\* every subsystem but the unsupported members at rest
exceptApi == <<dispVars, sbxVars, proxyVars, handlerVars, genVars, utilVars, printfVars, callVars,
    pageVars>>

-----------------------------------------------------------------------------
(* MessageHandler.handle of the postMessage sandbox.                       *)

WidgetIds == {"1R", "2R"}
UnknownId == "9R"

\* one entry of message.value[0] of a Create message: null, or a widget
\* annotation with its subtype, its value and whether it carries an action
\* for the event the host sends
NullDescriptor == [id |-> Null, subtype |-> Null, value |-> Null, listens |-> FALSE]
Descriptors ==
  [id : WidgetIds, subtype : {"text", "checkbox"}, value : {"a"}, listens : BOOLEAN]
    \cup {NullDescriptor}

CreateMessages ==
  { [name |-> "Create", id |-> Null, value |-> v] :
      v \in {<<>>} \cup {<<d>> : d \in Descriptors}
              \cup {<<d, e>> : d \in Descriptors, e \in Descriptors} }

EventMessages ==
  { [name |-> "Event", id |-> i, value |-> <<>>] : i \in WidgetIds \cup {UnknownId} }

OtherMessages == { [name |-> "Destroy", id |-> Null, value |-> <<>>] }

Messages == CreateMessages \cup EventMessages \cup OtherMessages

\* What the free identifier `event` of line 99 resolves to while a message
\* listener runs: window.event, the MessageEvent being handled, where the
\* browser defines it; nothing otherwise.
Ambients == {"MessageEvent", "none"}

\* Field._new(...) stored in this._objects
NewField(d) == [value |-> d.value, listens |-> d.listens]

\* the for loop of the Create branch
RECURSIVE CreateFrom(_, _, _)
CreateFrom(objs, list, i) ==
  IF i > Len(list) THEN objs
  ELSE IF list[i] = NullDescriptor THEN CreateFrom(objs, list, i + 1)
  ELSE IF list[i].subtype = "text"
       THEN CreateFrom(Extended(objs, list[i].id, NewField(list[i])), list, i + 1)
       ELSE CreateFrom(objs, list, i + 1)

Handled(objs, threw, dispatched) ==
  [objects |-> objs, threw |-> threw, dispatched |-> dispatched]

\* line 99: obj.real[message.field] = event.value
AssignField(objs, id, ambient, dispatched) ==
  IF id \notin DOMAIN objs THEN Handled(objs, TRUE, dispatched)
  ELSE IF ambient = "none" THEN Handled(objs, TRUE, dispatched)
  ELSE Handled([objs EXCEPT ![id].value = Undefined], FALSE, dispatched)

\* MessageHandler.handle
handle(objs, message, ambient) ==
  IF message.name = "Event"
  THEN AssignField(objs, message.id, ambient,
                   message.id \in DOMAIN objs /\ objs[message.id].listens)
  ELSE IF message.name = "Create"
       THEN Handled(CreateFrom(objs, message.value, 1), FALSE, FALSE)
       ELSE Handled(objs, FALSE, FALSE)

NoMessage == [name |-> "none", id |-> Null, value |-> <<>>]

HandlerIdle ==
  /\ hObjects = <<>>
  /\ hLast = [message |-> NoMessage, threw |-> FALSE, dispatched |-> FALSE]
  /\ hCount = 0

exceptHandler == <<dispVars, sbxVars, proxyVars, apiVars, genVars, utilVars, printfVars, callVars,
    pageVars>>

-----------------------------------------------------------------------------
(* generateCode of scripting_api/code_gen.js.                              *)

\* t.includes(name)
Includes(t, name) ==
  \E i \in 1..(Len(t) - Len(name) + 1) : SubSeq(t, i, i + Len(name) - 1) = name

\* the strings btoa may give for the random bytes
RandomNames == {"aQ", "b7", "Zz"}

\* action scripts of the document; some contain a string btoa may give
GenScripts == {"x=1", "aQ()", "y=b7aQ"}

\* a widget descriptor: its id and its actions, one trigger with its scripts
Widget(id, scripts) == [id |-> id, actions |-> [K |-> scripts]]

WidgetsOf(ids) ==
  {Widget(id, <<t>>) : id \in ids, t \in GenScripts}
    \cup {Widget(id, <<"x=1", t>>) : id \in ids, t \in GenScripts \ {"x=1"}}

\* the widgets the host gives for one field name: one, or two that share it
WidgetLists(ids) ==
  {<<w>> : w \in WidgetsOf(ids)}
    \cup {<<v, w>> : v \in WidgetsOf({"1R"}) \cap WidgetsOf(ids),
                     w \in {Widget("2R", <<t>>) : t \in GenScripts} \cap WidgetsOf(ids)}

\* objects: field name -> widgets
GenObjects ==
  {[f |-> l] : l \in WidgetLists({"1R", "2R"})}
    \cup {[f |-> l, g |-> m] : l \in WidgetLists({"1R", "2R"}),
                               m \in WidgetLists({"3R"})}

\* what the source of randomness gives, call after call
Draws == UNION {[1..n -> RandomNames] : n \in 1..MaxDraws}

\* Object.values(objects).flat(2)
RECURSIVE Flat(_)
Flat(seqs) == IF seqs = <<>> THEN <<>> ELSE Head(seqs) \o Flat(Tail(seqs))

RECURSIVE ValuesOf(_, _)
ValuesOf(f, keys) ==
  IF keys = {} THEN <<>>
  ELSE LET k == CHOOSE x \in keys : TRUE
       IN <<f[k]>> \o ValuesOf(f, keys \ {k})

allObjects(objects) == Flat(ValuesOf(objects, DOMAIN objects))

\* allObjects.map(obj => Object.values(obj.actions)).flat(2)
RECURSIVE allActions(_)
allActions(objs) ==
  IF objs = <<>> THEN <<>>
  ELSE Flat(ValuesOf(Head(objs).actions, DOMAIN Head(objs).actions))
         \o allActions(Tail(objs))

Looping == "<looping>"

\* Mutant of generateRandomString: the first string drawn is returned.
generateRandomString_Unchecked(acts, draws, i) ==
  draws[1]

\* generateRandomString: draw until no action includes the string
RECURSIVE generateRandomString(_, _, _)
generateRandomString(acts, draws, i) ==
  IF i > Len(draws) THEN Looping
  ELSE IF \A k \in DOMAIN acts : ~Includes(acts[k], draws[i]) THEN draws[i]
  ELSE generateRandomString(acts, draws, i + 1)

\* the registration loop of the generated code: _app._objects[obj.id], for
\* obj = objs[0] of every name
RegisteredIds(objects) == {objects[name][1].id : name \in DOMAIN objects}

\* generateCode
generateCode(objects, draws) ==
  [dispatchEventName |->
     generateRandomString(allActions(allObjects(objects)), draws, 1),
   registered |-> RegisteredIds(objects)]

NoCode == [dispatchEventName |-> Null, registered |-> {}]

GenIdle ==
  /\ genInput = [objects |-> <<>>, draws |-> <<>>]
  /\ genResult = NoCode

exceptGen == <<dispVars, sbxVars, proxyVars, apiVars, handlerVars, utilVars, printfVars, callVars,
    pageVars>>

-----------------------------------------------------------------------------
(* class Util: printd and scand.                                           *)

\* the alternation of the token pattern, in its order
DateTokens ==
  <<"mmmm", "mmm", "mm", "m", "dddd", "ddd", "dd", "d", "yyyy", "yy",
    "HH", "H", "hh", "h", "MM", "M", "ss", "s", "tt", "t">>

\* the tokens whose handlers read this._months / this._days
NameTokens == {"mmmm", "mmm", "dddd", "ddd"}

Digits == {"0", "1", "2", "3", "4", "5", "6", "7", "8", "9"}

\* the formats a script passes; none holds a backslash
Formats ==
  {"0", "1", "2", "D:yyyymmddHHMMss", "yyyy.mm.dd HH:MM:ss",
   "m/d/yy h:MM:ss tt", "mmmm mmm mm m", "dddd ddd dd d"}

\* the formats that carry year, month, day, hour, minute and second tokens
FullFormats ==
  {"0", "1", "2", "D:yyyymmddHHMMss", "yyyy.mm.dd HH:MM:ss", "m/d/yy h:MM:ss tt"}

DateOf(y, mo, d, h, mi, s) ==
  [year |-> y, month |-> mo, day |-> d, hours |-> h, minutes |-> mi, seconds |-> s]

\* the dates a script passes, to the second
Dates ==
  {DateOf(y, mo, 15, h, 14, 15) : y \in {1707, 2007}, mo \in {3, 11}, h \in {3, 12, 15}}

NoDate == DateOf(0 - 1, 0 - 1, 0 - 1, 0 - 1, 0 - 1, 0 - 1)

\* the texts a script passes to scand
Texts ==
  {"D:17070415031415", "1707.04.15 03:14:15", "4/15/07 3:14:15 am",
   "4/15/07 12:14:15 pm", "15 avril 1707", ""}

\* the switch on the shorthand formats
Shorthand(cFormat) ==
  CASE cFormat = "0" -> "D:yyyymmddHHMMss"
    [] cFormat = "1" -> "yyyy.mm.dd HH:MM:ss"
    [] cFormat = "2" -> "m/d/yy h:MM:ss tt"
    [] OTHER -> cFormat

StartsAt(s, i, t) ==
  /\ i + Len(t) - 1 <= Len(s)
  /\ SubSeq(s, i, i + Len(t) - 1) = t

FirstOf(hits) == CHOOSE k \in hits : \A j \in hits : k <= j

RECURSIVE TokenFrom(_, _, _)
TokenFrom(s, i, k) ==
  IF k > Len(DateTokens) THEN ""
  ELSE IF StartsAt(s, i, DateTokens[k]) THEN DateTokens[k]
  ELSE TokenFrom(s, i, k + 1)

\* the token the pattern matches at position i, the first of the alternation
\* that fits, "" when none does
TokenAt(s, i) == TokenFrom(s, i, 1)

Lit(c) == [kind |-> "lit", v |-> c]
Tok(t) == [kind |-> "tok", v |-> t]

\* cFormat.replace(pattern, ...): the matches of the pattern from left to
\* right and the characters between them
RECURSIVE Scan(_, _)
ScanOn(s, i, t) ==
  IF t = "" THEN <<Lit(SubSeq(s, i, i))>> \o Scan(s, i + 1)
  ELSE <<Tok(t)>> \o Scan(s, i + Len(t))

Scan(s, i) == IF i > Len(s) THEN <<>> ELSE ScanOn(s, i, TokenAt(s, i))

\* toString().padStart(2, "0")
PadStart2(s) == IF Len(s) < 2 THEN "0" \o s ELSE s

\* the handlers of printd, for the tokens that do not read this._months
printdHandler(t, data) ==
  CASE t = "mm" -> PadStart2(ToString(data.month + 1))
    [] t = "m" -> ToString(data.month + 1)
    [] t = "dd" -> PadStart2(ToString(data.day))
    [] t = "d" -> ToString(data.day)
    [] t = "yyyy" -> ToString(data.year)
    [] t = "yy" -> PadStart2(ToString(data.year % 100))
    [] t = "HH" -> PadStart2(ToString(data.hours))
    [] t = "H" -> ToString(data.hours)
    [] t = "hh" -> PadStart2(ToString(data.hours % 12))
    [] t = "h" -> ToString(data.hours % 12)
    [] t = "MM" -> PadStart2(ToString(data.minutes))
    [] t = "M" -> ToString(data.minutes)
    [] t = "ss" -> PadStart2(ToString(data.seconds))
    [] t = "s" -> ToString(data.seconds)
    [] t = "tt" -> IF data.hours < 12 THEN "am" ELSE "pm"
    [] t = "t" -> IF data.hours < 12 THEN "a" ELSE "p"

RECURSIVE Replaced(_, _, _)
Replaced(items, k, data) ==
  IF k > Len(items) THEN ""
  ELSE IF items[k].kind = "lit" THEN items[k].v \o Replaced(items, k + 1, data)
  ELSE printdHandler(items[k].v, data) \o Replaced(items, k + 1, data)

\* a handler is called as handlers[p1](...), so its `this` is the handlers
\* object, which has neither _months nor _days
ReadsNames(items) ==
  \E k \in 1..Len(items) : items[k].kind = "tok" /\ items[k].v \in NameTokens

Printed(threw, text) == [threw |-> threw, text |-> text]

printdItems(items, cDate) ==
  IF ReadsNames(items) THEN Printed("TypeError", "")
  ELSE Printed("none", Replaced(items, 1, cDate))

\* Util.printd
printd(cFormat, cDate) == printdItems(Scan(Shorthand(cFormat), 1), cDate)

\* the characters the escape of scand prefixes with a backslash
Specials ==
  {".", "*", "+", "-", "?", "^", "$", "{", "}", "(", ")", "|", "[", "]", "\\"}

RECURSIVE Escaped(_, _)
Escaped(s, i) ==
  IF i > Len(s) THEN ""
  ELSE IF SubSeq(s, i, i) \in Specials
    THEN "\\" \o SubSeq(s, i, i) \o Escaped(s, i + 1)
  ELSE SubSeq(s, i, i) \o Escaped(s, i + 1)

\* the regular expression built from an escaped format: a group per token,
\* the escaped and the plain characters for themselves
RECURSIVE Regex(_, _)
RegexOn(e, i, t) ==
  IF t # "" THEN <<Tok(t)>> \o Regex(e, i + Len(t))
  ELSE IF SubSeq(e, i, i) = "\\" /\ i < Len(e)
    THEN <<Lit(SubSeq(e, i + 1, i + 1))>> \o Regex(e, i + 2)
  ELSE <<Lit(SubSeq(e, i, i))>> \o Regex(e, i + 1)

Regex(e, i) == IF i > Len(e) THEN <<>> ELSE RegexOn(e, i, TokenAt(e, i))

\* the widths a group tries, the longest first
Widths(t) ==
  CASE t = "yyyy" -> <<4>>
    [] t \in {"mm", "dd", "yy", "HH", "hh", "MM", "ss", "tt"} -> <<2>>
    [] t \in {"m", "d", "H", "h", "M", "s"} -> <<2, 1>>
    [] t = "t" -> <<1>>

IsDigits(s) == \A i \in 1..Len(s) : SubSeq(s, i, i) \in Digits

\* the pat of a token against a piece of text
PatFits(t, piece) ==
  CASE t = "tt" -> /\ SubSeq(piece, 1, 1) \in {"a", "A", "p", "P"}
                   /\ SubSeq(piece, 2, 2) \in {"m", "M"}
    [] t = "t" -> piece \in {"a", "A", "p", "P"}
    [] OTHER -> IsDigits(piece)

Failed == [ok |-> FALSE, caps |-> <<>>]

Matched(caps) == [ok |-> TRUE, caps |-> caps]

Capture(piece, rest) == IF rest.ok THEN Matched(<<piece>> \o rest.caps) ELSE Failed

RECURSIVE MatchAt(_, _, _, _)
RECURSIVE TryWidths(_, _, _, _, _)

TryWidths(re, k, text, pos, j) ==
  IF j > Len(Widths(re[k].v)) THEN Failed
  ELSE IF /\ pos + Widths(re[k].v)[j] - 1 <= Len(text)
          /\ PatFits(re[k].v, SubSeq(text, pos, pos + Widths(re[k].v)[j] - 1))
          /\ MatchAt(re, k + 1, text, pos + Widths(re[k].v)[j]).ok
    THEN Capture(SubSeq(text, pos, pos + Widths(re[k].v)[j] - 1),
                 MatchAt(re, k + 1, text, pos + Widths(re[k].v)[j]))
  ELSE TryWidths(re, k, text, pos, j + 1)

MatchAt(re, k, text, pos) ==
  IF k > Len(re) THEN Matched(<<>>)
  ELSE IF re[k].kind = "tok" THEN TryWidths(re, k, text, pos, 1)
  ELSE IF pos <= Len(text) /\ SubSeq(text, pos, pos) = re[k].v
    THEN MatchAt(re, k + 1, text, pos + 1)
  ELSE Failed

\* regexForFormat.exec(cDate): the first place of the text the expression
\* matches at, Failed for null
exec(re, text) ==
  IF \E p \in 1..(Len(text) + 1) : MatchAt(re, 1, text, p).ok
    THEN MatchAt(re, 1, text, FirstOf({p \in 1..(Len(text) + 1) : MatchAt(re, 1, text, p).ok}))
    ELSE Failed

RECURSIVE parseInt(_)
parseInt(s) ==
  IF Len(s) = 0 THEN 0
  ELSE parseInt(SubSeq(s, 1, Len(s) - 1)) * 10
         + (CHOOSE n \in 0..9 : ToString(n) = SubSeq(s, Len(s), Len(s)))

\* the action of a token
scandAction(t, value, data) ==
  CASE t \in {"mm", "m"} -> [data EXCEPT !.month = parseInt(value) - 1]
    [] t \in {"dd", "d"} -> [data EXCEPT !.day = parseInt(value)]
    [] t = "yyyy" -> [data EXCEPT !.year = parseInt(value)]
    [] t = "yy" -> [data EXCEPT !.year = 2000 + parseInt(value)]
    [] t \in {"HH", "H", "hh", "h"} -> [data EXCEPT !.hours = parseInt(value)]
    [] t \in {"MM", "M"} -> [data EXCEPT !.minutes = parseInt(value)]
    [] t \in {"ss", "s"} -> [data EXCEPT !.seconds = parseInt(value)]
    [] t = "tt" -> [data EXCEPT !.am = SubSeq(value, 1, 1) \in {"a", "A"}]
    [] t = "t" -> [data EXCEPT !.am = value \in {"a", "A"}]

GroupsOf(re) == SelectSeq(re, LAMBDA item : item.kind = "tok")

RECURSIVE applyActions(_, _, _, _)
applyActions(groups, caps, i, data) ==
  IF i > Len(groups) THEN data
  ELSE applyActions(groups, caps, i + 1, scandAction(groups[i].v, caps[i], data))

FreshData ==
  [year |-> 0, month |-> 0, day |-> 0, hours |-> 0, minutes |-> 0, seconds |-> 0,
   am |-> TRUE]

AddTwelve(data) == IF data.am THEN data ELSE [data EXCEPT !.hours = @ + 12]

\* new Date(year, month, day, hours, minutes, seconds): a two-digit year counts
\* from 1900 and the hours past the day run into the next day
NewDate(data) ==
  DateOf(IF data.year \in 0..99 THEN 1900 + data.year ELSE data.year,
         data.month,
         IF data.hours >= 24 THEN data.day + 1 ELSE data.day,
         data.hours % 24, data.minutes, data.seconds)

Scanned(threw, date, cache) == [threw |-> threw, date |-> date, cache |-> cache]

\* lines 560-586, with the expression and the actions found in the cache
scandWith(re, cDate, cache) ==
  IF ~exec(re, cDate).ok THEN Scanned("TypeError", NoDate, cache)
  ELSE IF Len(exec(re, cDate).caps) + 1 # Len(GroupsOf(re)) + 1
    THEN Scanned("Error", NoDate, cache)
  ELSE Scanned("none",
               NewDate(AddTwelve(applyActions(GroupsOf(re), exec(re, cDate).caps, 1,
                                            FreshData))),
               cache)

\* the object the Util instance answers `this.scandCache` with
NoCache == [present |-> FALSE, keys |-> {}]
EmptyCache == [present |-> TRUE, keys |-> {}]

\* (!cFormat) as a property name
NotAsKey(cFormat) == IF cFormat = "" THEN "true" ELSE "false"

\* line 558 onwards: the entry is read under the name cFormat has by then
scandLookup(key, cDate, cache) ==
  IF key \notin cache.keys THEN Scanned("TypeError", NoDate, cache)
  ELSE scandWith(Regex(key, 1), cDate, cache)

\* lines 373-555: the entry is built and stored under the escaped format
scandCompile(cFormat, cDate, cache) ==
  IF ReadsNames(Regex(Escaped(cFormat, 1), 1)) THEN Scanned("TypeError", NoDate, cache)
  ELSE scandLookup(Escaped(cFormat, 1), cDate,
                   [cache EXCEPT !.keys = @ \cup {Escaped(cFormat, 1)}])

\* Util.scand after the switch; line 372 reads (!cFormat) in this.scandCache
scandLong(cFormat, cDate, cache) ==
  IF ~cache.present THEN Scanned("TypeError", NoDate, cache)
  ELSE IF NotAsKey(cFormat) \in cache.keys THEN scandCompile(cFormat, cDate, cache)
  ELSE scandLookup(cFormat, cDate, cache)

\* Util.scand
scand(cFormat, cDate, cache) == scandLong(Shorthand(cFormat), cDate, cache)

LowerCase == "abcdefghijklmnopqrstuvwxyz"

UpperCase == "ABCDEFGHIJKLMNOPQRSTUVWXYZ"

\* where ch stands in alphabet, 0 if it does not
IndexIn(alphabet, ch) ==
  LET hits == {k \in 1..Len(alphabet) : SubSeq(alphabet, k, k) = ch}
  IN IF hits = {} THEN 0 ELSE FirstOf(hits)

toUpperCase(ch) ==
  IF IndexIn(LowerCase, ch) = 0 THEN ch
  ELSE SubSeq(UpperCase, IndexIn(LowerCase, ch), IndexIn(LowerCase, ch))

toLowerCase(ch) ==
  IF IndexIn(UpperCase, ch) = 0 THEN ch
  ELSE SubSeq(LowerCase, IndexIn(UpperCase, ch), IndexIn(UpperCase, ch))

\* the handlers of printx: currCase is the index of the one in use
currCaseOf(currCase, ch) ==
  CASE currCase = 0 -> ch
    [] currCase = 1 -> toUpperCase(ch)
    [] currCase = 2 -> toLowerCase(ch)

\* cSource.charAt(i), i counted from 0
charAt(cSource, i) == SubSeq(cSource, i + 1, i + 1)

IsLetterCode(ch) == IndexIn(LowerCase, ch) > 0 \/ IndexIn(UpperCase, ch) > 0

IsDigitCode(ch) == ch \in Digits

\* the characters of cSource from i on, each through the case handler
RECURSIVE RestFrom(_, _, _)
RestFrom(cSource, i, currCase) ==
  IF i >= Len(cSource) THEN ""
  ELSE currCaseOf(currCase, charAt(cSource, i)) \o RestFrom(cSource, i + 1, currCase)

\* the while loops of "X", "A" and "9": the cursor runs to the first
\* character of the class and past it, or to the end
SearchAndConsume(w, cSource, command) ==
  LET fits(ch) == CASE command = "X" -> IsLetterCode(ch) \/ IsDigitCode(ch)
                    [] command = "A" -> IsLetterCode(ch)
                    [] command = "9" -> IsDigitCode(ch)
      hits == {j \in w.i..(Len(cSource) - 1) : fits(charAt(cSource, j))}
  IN IF hits = {} THEN [w EXCEPT !.i = Len(cSource)]
     ELSE [w EXCEPT !.i = FirstOf(hits) + 1,
                    !.buf = @ \o (IF command = "9" THEN charAt(cSource, FirstOf(hits))
                                  ELSE currCaseOf(w.currCase, charAt(cSource, FirstOf(hits))))]

\* one turn of the loop of printx, lines 294-356
printxCommand(w, cSource, command) ==
  IF w.broken THEN w
  ELSE IF w.escaped THEN [w EXCEPT !.buf = @ \o command, !.escaped = FALSE]
  ELSE IF w.i >= Len(cSource) THEN [w EXCEPT !.broken = TRUE]
  ELSE CASE command = "?" ->
              [w EXCEPT !.buf = @ \o currCaseOf(w.currCase, charAt(cSource, w.i)),
                        !.i = @ + 1]
         [] command \in {"X", "A", "9"} -> SearchAndConsume(w, cSource, command)
         [] command = "*" ->
              [w EXCEPT !.buf = @ \o RestFrom(cSource, w.i, w.currCase),
                        !.i = Len(cSource)]
         [] command = "\\" -> [w EXCEPT !.escaped = TRUE]
         [] command = ">" -> [w EXCEPT !.currCase = 1]
         [] command = "<" -> [w EXCEPT !.currCase = 2]
         [] command = "=" -> [w EXCEPT !.currCase = 0]
         [] OTHER -> [w EXCEPT !.buf = @ \o command]

RECURSIVE printxLoop(_, _, _, _)
printxLoop(w, cSource, commands, k) ==
  IF k > Len(commands) THEN w
  ELSE printxLoop(printxCommand(w, cSource, commands[k]), cSource, commands, k + 1)

\* what `for (const command in cFormat)` enumerates: the keys of the string,
\* its indices "0", "1", ... as strings
KeysIn(cFormat) == [k \in 1..Len(cFormat) |-> ToString(k - 1)]

\* Util.printx
printx(cFormat, cSource) ==
  printxLoop([buf |-> "", i |-> 0, currCase |-> 0, escaped |-> FALSE, broken |-> FALSE],
             cSource, KeysIn(cFormat), 1).buf

\* what scripts hand to printx
Templates == {"??", ">A<A=A", "9\\-9", "X*", "(999) 999-9999"}

Sources == {"ab1", "-xY2", "1a2", "5551234567", ""}

UtilCall(op, format, date, text, threw, outText, outDate) ==
  [op |-> op, format |-> format, date |-> date, text |-> text, threw |-> threw,
   outText |-> outText, outDate |-> outDate]

NoCall == UtilCall("none", "", NoDate, "", "none", "", NoDate)

UtilIdle ==
  /\ scandCache = NoCache
  /\ utilLast = NoCall
  /\ utilCount = 0

exceptUtil == <<dispVars, sbxVars, proxyVars, apiVars, handlerVars, genVars, printfVars, callVars,
    pageVars>>

-----------------------------------------------------------------------------
(* class Util: printf, for one %f conversion.  A number is held as its      *)
(* count of thousandths; NaN apart.                                         *)

\* the numbers a script passes, in thousandths: 0, 0.4, 1.5, 1.999, 1234.5
\* and negative ones
PrintfValues == {0, 400, 1500, 1999, 1234500, 0 - 400, 0 - 1500, 0 - 1999}

\* the precisions of the conversion
Precisions == {0, 1, 2}

\* the digit after the comma of the conversion, "" for none
SepStyles == {"", "1", "2"}

Num(milli) == [nan |-> FALSE, inf |-> FALSE, milli |-> milli]

NaN == [nan |-> TRUE, inf |-> FALSE, milli |-> 0]

\* Infinity; its sign is not told
Infinity == [nan |-> FALSE, inf |-> TRUE, milli |-> 0]

Abs(n) == IF n < 0 THEN 0 - n ELSE n

\* Math.trunc, as a signed count of units; -0 for a negative fraction
TruncUnits(milli) == IF milli < 0 THEN 0 - (Abs(milli) \div 1000) ELSE milli \div 1000

RECURSIVE TenTo(_)
TenTo(n) == IF n = 0 THEN 1 ELSE 10 * TenTo(n - 1)

RECURSIVE PadStart(_, _, _)
PadStart(str, width, fill) ==
  IF Len(str) >= width THEN str ELSE PadStart(fill \o str, width, fill)

\* Number.prototype.toFixed of a number of thousandths: the nearest multiple
\* of 10^-n, the larger one of two
ScaledDigits(scaled, n) ==
  IF n = 0 THEN ToString(scaled)
  ELSE ToString(scaled \div TenTo(n)) \o "." \o PadStart(ToString(scaled % TenTo(n)), n, "0")

toFixed(milli, n) ==
  (IF milli < 0 THEN "-" ELSE "")
    \o ScaledDigits((Abs(milli) * TenTo(n) + 500) \div 1000, n)

\* separators[nDecSep], the default for a digit outside 0..3
Separators(nDecSep) ==
  CASE nDecSep = "0" -> <<",", ".">>
    [] nDecSep = "1" -> <<"", ".">>
    [] nDecSep = "2" -> <<".", ",">>
    [] nDecSep = "3" -> <<"", ",">>
    [] OTHER -> <<"'", ".">>

\* lines 133-147
decPartOf(fixed, decimalSep, cFlags) ==
  IF Len(fixed) > 2 THEN decimalSep \o SubSeq(fixed, 3, Len(fixed))
  ELSE IF "#" \in cFlags THEN "."
  ELSE ""

\* lines 149-157
prefixOf(units, cFlags) ==
  IF units < 0 THEN "-"
  ELSE IF "+" \in cFlags THEN "+"
  ELSE IF " " \in cFlags THEN " "
  ELSE ""

\* lines 159-172
RECURSIVE Grouped(_, _)
Grouped(units, thousandSep) ==
  IF units < 1000 THEN ToString(units)
  ELSE Grouped(units \div 1000, thousandSep) \o thousandSep
         \o PadStart(ToString(units % 1000), 3, "0")

intPartOf(units, thousandSep) ==
  IF thousandSep # "" /\ units >= 1000 THEN Grouped(units, thousandSep)
  ELSE ToString(units)

\* the callback of printf for %[,p1][.nPrecision]f without a width
printf_f(p1, nPrecision, cFlags, arg) ==
  IF arg.nan
    THEN "NaN" \o decPartOf("NaN", Separators(IF p1 = "" THEN "0" ELSE p1)[2], cFlags)
    ELSE prefixOf(TruncUnits(arg.milli), cFlags)
           \o intPartOf(Abs(TruncUnits(arg.milli)),
                        Separators(IF p1 = "" THEN "0" ELSE p1)[1])
           \o decPartOf(toFixed(arg.milli - 1000 * TruncUnits(arg.milli), nPrecision),
                        Separators(IF p1 = "" THEN "0" ELSE p1)[2], cFlags)

\* the longest run of digits of str from position i
RECURSIVE DigitsEnd(_, _)
DigitsEnd(str, i) ==
  IF i <= Len(str) /\ SubSeq(str, i, i) \in Digits THEN DigitsEnd(str, i + 1) ELSE i

\* the thousandths the decimals str[from..to] stand for, further decimals
\* dropped
Thousandths(str, from, to) ==
  IF to < from THEN 0
  ELSE parseInt(SubSeq(SubSeq(str, from, to) \o "000", 1, 3))

\* parseFloat for a text with its sign at position 1 or none: digits, then a
\* dot and digits if they follow
parseUnsigned(str, i, intEnd) ==
  IF StartsAt(str, i, "Infinity") THEN Infinity
  ELSE IF intEnd <= Len(str) /\ SubSeq(str, intEnd, intEnd) = "."
    THEN IF intEnd = i /\ DigitsEnd(str, intEnd + 1) = intEnd + 1 THEN NaN
         ELSE Num(parseInt(SubSeq(str, i, intEnd - 1)) * 1000
                    + Thousandths(str, intEnd + 1, DigitsEnd(str, intEnd + 1) - 1))
  ELSE IF intEnd = i THEN NaN
  ELSE Num(parseInt(SubSeq(str, i, intEnd - 1)) * 1000)

Negated(number) == IF number.nan \/ number.inf THEN number ELSE Num(0 - number.milli)

parseFloat(str) ==
  IF Len(str) > 0 /\ SubSeq(str, 1, 1) = "-"
    THEN Negated(parseUnsigned(str, 2, DigitsEnd(str, 2)))
  ELSE IF Len(str) > 0 /\ SubSeq(str, 1, 1) = "+"
    THEN parseUnsigned(str, 2, DigitsEnd(str, 2))
  ELSE parseUnsigned(str, 1, DigitsEnd(str, 1))

Printf(op, p1, nPrecision, arg, out, parsed) ==
  [op |-> op, p1 |-> p1, nPrecision |-> nPrecision, arg |-> arg, out |-> out,
   parsed |-> parsed]

NoPrintf == Printf("none", "", 0, Num(0), "", "")

PrintfIdle ==
  /\ numLast = NoPrintf
  /\ numCount = 0

exceptPrintf == <<dispVars, sbxVars, proxyVars, apiVars, handlerVars, genVars, utilVars, callVars,
    pageVars>>

------------------------------------------------------------------------------
(* The public methods (publics.js).                                         *)

\* str[a..b], empty when b < a
Slice(str, a, b) == IF b < a THEN "" ELSE SubSeq(str, a, b)

RECURSIVE trimStart(_)
trimStart(str) ==
  IF Len(str) > 0 /\ SubSeq(str, 1, 1) = " " THEN trimStart(Slice(str, 2, Len(str)))
  ELSE str

RECURSIVE trimEnd(_)
trimEnd(str) ==
  IF Len(str) > 0 /\ SubSeq(str, Len(str), Len(str)) = " "
    THEN trimEnd(Slice(str, 1, Len(str) - 1))
  ELSE str

trim(str) == trimEnd(trimStart(str))

\* String.prototype.replace with a string pattern: the first occurrence only
replace(str, pattern, by) ==
  LET hits == {i \in 1..Len(str) : StartsAt(str, i, pattern)}
  IN IF hits = {} THEN str
     ELSE Slice(str, 1, FirstOf(hits) - 1) \o by
            \o Slice(str, FirstOf(hits) + Len(pattern), Len(str))

\* the values a script can hand to a public method
StringValue(str) == [type |-> "string", str |-> str, number |-> Num(0)]

NumberValue(number) == [type |-> "number", str |-> "", number |-> number]

UndefinedValue == [type |-> "undefined", str |-> "", number |-> Num(0)]

isNaN(number) == number.nan

isFinite(number) == ~number.nan /\ ~number.inf

AFMakeNumber(str) ==
  IF str.type = "number" THEN str.number
  ELSE IF str.type # "string" THEN Num(0)
  ELSE LET number == parseFloat(replace(trim(str.str), ",", "."))
       IN IF isNaN(number) \/ ~isFinite(number) THEN Num(0) ELSE number

RECURSIVE Gcd(_, _)
Gcd(a, b) == IF b = 0 THEN a ELSE Gcd(b, a % b)

\* the number num / den in lowest terms; size tells Number.MIN_VALUE and
\* Number.MAX_VALUE from the numbers a field can hold
Ratio(num, den) ==
  LET g == IF num = 0 THEN den ELSE Gcd(Abs(num), den)
  IN [num |-> num \div g, den |-> den \div g, size |-> ""]

MIN_VALUE == [num |-> 0, den |-> 1, size |-> "MIN_VALUE"]

MAX_VALUE == [num |-> 0, den |-> 1, size |-> "MAX_VALUE"]

RatioOf(number) == Ratio(number.milli, 1000)

Plus(a, b) == Ratio(a.num * b.den + b.num * a.den, a.den * b.den)

Times(a, b) == Ratio(a.num * b.num, a.den * b.den)

Below(a, b) ==
  IF a.size = "MAX_VALUE" THEN FALSE
  ELSE IF b.size = "MAX_VALUE" THEN TRUE
  ELSE IF a.size = "MIN_VALUE" THEN b.size = "" /\ b.num > 0
  ELSE IF b.size = "MIN_VALUE" THEN a.num <= 0
  ELSE a.num * b.den < b.num * a.den

Math_min(a, b) == IF Below(b, a) THEN b ELSE a

Math_max(a, b) == IF Below(a, b) THEN b ELSE a

\* args.reduce(f, acc) from the i-th argument on
RECURSIVE reduce(_, _, _, _)
reduce(args, name, acc, i) ==
  IF i > Len(args) THEN acc
  ELSE reduce(args, name,
              CASE name = "SUM" -> Plus(acc, args[i])
                [] name = "PRD" -> Times(acc, args[i])
                [] name = "MIN" -> Math_min(acc, args[i])
                [] name = "MAX" -> Math_max(acc, args[i]),
              i + 1)

AVG(args) ==
  LET sum == reduce(args, "SUM", Ratio(0, 1), 1)
  IN Ratio(sum.num, sum.den * Len(args))

SUM(args) == reduce(args, "SUM", Ratio(0, 1), 1)

PRD(args) == reduce(args, "PRD", Ratio(1, 1), 1)

MIN(args) == reduce(args, "MIN", MAX_VALUE, 1)

MAX(args) == reduce(args, "MAX", MIN_VALUE, 1)

FunctionNames == {"AVG", "SUM", "PRD", "MIN", "MAX"}

\* Math.round(1e6 * res), a count of millionths: the nearest one, the larger
\* one of two
RoundMillionths(res) ==
  IF res.size = "MIN_VALUE" THEN 0
  ELSE (2000000 * res.num + res.den) \div (2 * res.den)

RECURSIVE WithoutTrailingZeros(_)
WithoutTrailingZeros(str) ==
  IF Len(str) > 0 /\ SubSeq(str, Len(str), Len(str)) = "0"
    THEN WithoutTrailingZeros(Slice(str, 1, Len(str) - 1))
  ELSE str

\* (millionths / 1e6).toString()
MillionthsToString(millionths) ==
  LET whole == ToString(Abs(millionths) \div 1000000)
      decimals == WithoutTrailingZeros(
                    PadStart(ToString(Abs(millionths) % 1000000), 6, "0"))
  IN (IF millionths < 0 THEN "-" ELSE "")
       \o whole \o (IF decimals = "" THEN "" ELSE "." \o decimals)

\* the numbers of the fields of cFields, each one a text field with its value
RECURSIVE valuesOf(_, _)
valuesOf(cFields, i) ==
  IF i > Len(cFields) THEN <<>>
  ELSE <<RatioOf(AFMakeNumber(StringValue(cFields[i])))>> \o valuesOf(cFields, i + 1)

\* AFSimple_Calculate on an event whose value is value
AFSimple_Calculate(cFunction, cFields, value) ==
  IF cFunction \notin FunctionNames THEN [threw |-> "TypeError", value |-> value]
  ELSE IF Len(valuesOf(cFields, 1)) = 0 THEN [threw |-> "none", value |-> "0"]
  ELSE LET values == valuesOf(cFields, 1)
           res == CASE cFunction = "AVG" -> AVG(values)
                    [] cFunction = "SUM" -> SUM(values)
                    [] cFunction = "PRD" -> PRD(values)
                    [] cFunction = "MIN" -> MIN(values)
                    [] cFunction = "MAX" -> MAX(values)
       IN [threw |-> "none", value |-> MillionthsToString(RoundMillionths(res))]

\* what scripts hand to AFMakeNumber
NumberTexts == {"1.5", " 2,5 ", "-3", "1,234,5", "abc", "", "Infinity", "-Infinity", "NaN"}

NumberInputs ==
  {StringValue(t) : t \in NumberTexts}
    \cup {NumberValue(n) : n \in {Num(1500), Num(-3000), Num(0), NaN, Infinity}}
    \cup {UndefinedValue}

\* the values of the text fields AFSimple_Calculate reads
FieldTexts == {"3", "-2", "0", "-0.5", "2,5"}

\* the value of the event before the call
EventBefore == "before"

Call(op, input, cFunction, cFields, threw, number, value) ==
  [op |-> op, input |-> input, cFunction |-> cFunction, cFields |-> cFields,
   threw |-> threw, number |-> number, value |-> value]

NoApply == Call("none", UndefinedValue, "", <<>>, "none", Num(0), "")

CallIdle ==
  /\ callLast = NoApply
  /\ callCount = 0

exceptCall == <<dispVars, sbxVars, proxyVars, apiVars, handlerVars, genVars, utilVars,
                printfVars, pageVars>>

------------------------------------------------------------------------------
(* The sandbox page and the Listeners of its objects.                       *)

\* ListenerType of shared/util.js: the names of the triggers, numbered
ListenerNames == <<"Keystroke", "Format", "Validate", "MouseUp">>

ListenerTypes == 0..(Len(ListenerNames) - 1)

HasListenerType(name) == \E k \in ListenerTypes : ListenerNames[k + 1] = name

ListenerType(name) == CHOOSE k \in ListenerTypes : ListenerNames[k + 1] = name

\* the listeners a Create message gives for one type: none, a script that
\* compiles, or a text that createAction cannot compile
Absent == "<absent>"

ListenerTexts == {Absent, "script", "broken"}

\* createAction of shared/util.js: the callable of a listener, null if it
\* has none
createAction(type, listener) ==
  IF listener = "script" THEN <<"action", type>> ELSE Null

\* new Listeners(): new Array(n).fill([]) puts the one array it is given in
\* every slot
NewListeners ==
  [slots |-> [k \in ListenerTypes |-> 1], arrays |-> <<<<>>>>]

addEventListener(ls, type, listener) ==
  IF createAction(type, listener) = Null THEN ls
  ELSE [ls EXCEPT !.arrays[ls.slots[type]] = Append(@, createAction(type, listener))]

\* Listeners.dispatch: the actions it calls, in order
Listeners_dispatch(ls, type) == ls.arrays[ls.slots[type]]

isListeningFor(ls, type) == Len(ls.arrays[ls.slots[type]]) # 0

\* the loop of the constructor of Annotation over Object.entries(actions)
RECURSIVE AddFrom(_, _, _)
AddFrom(ls, acts, type) ==
  IF type \notin ListenerTypes THEN ls
  ELSE IF acts[type] = Absent THEN AddFrom(ls, acts, type + 1)
  ELSE AddFrom(addEventListener(ls, type, acts[type]), acts, type + 1)

\* new Annotation(id, actions, sender)._listeners
Annotation(acts) == AddFrom(NewListeners, acts, 0)

Annotation_dispatch(ls, name) == Listeners_dispatch(ls, ListenerType(name))

Annotation_isListeningFor(ls, name) ==
  HasListenerType(name) /\ isListeningFor(ls, ListenerType(name))

\* the Event branch of MessageHandler.handle for the Field of the page: the
\* actions run, and whether line 99 throws
handleEvent(ls, name, ambient) ==
  [ran |-> IF Annotation_isListeningFor(ls, name) THEN Annotation_dispatch(ls, name)
           ELSE <<>>,
   threw |-> ambient = "none"]

\* window.location of the sandbox page
Location == [protocol |-> "https:", host |-> "viewer.test"]

OwnOrigin == Location.protocol \o "//" \o Location.host

Origins == {"https://viewer.test", "http://viewer.test", "https://evil.test", "null"}

\* Mutant of the listener of the page: every origin is let through.
PassesOriginTest_Any(origin) == TRUE

\* line 4 of the listener: e.origin !== protocol + "//" + host returns
PassesOriginTest(origin) == origin = OwnOrigin

\* window.messageHandler before the first message let through
NoHandler == [window |-> Null, origin |-> Null]

\* no Field yet
NoField == [k \in ListenerTypes |-> Null]

NoListeners == [slots |-> <<>>, arrays |-> <<>>]

NoUse == [op |-> "none", name |-> "", result |-> FALSE, ran |-> <<>>, threw |-> FALSE]

NoPost == [origin |-> Null, data |-> NoMessage]

PageIdle ==
  /\ listening = FALSE
  /\ messageHandler = NoHandler
  /\ received = 0
  /\ pageLast = NoPost
  /\ created = NoField
  /\ listeners = NoListeners
  /\ lsnLast = NoUse

exceptPage == <<dispVars, sbxVars, proxyVars, apiVars, genVars, utilVars, printfVars,
                callVars>>

MoreIdle == ApiIdle /\ HandlerIdle /\ GenIdle /\ UtilIdle /\ PrintfIdle /\ CallIdle
              /\ PageIdle

\* the sandbox front-end before QuickJSSandbox() is called
SandboxIdle ==
  /\ modulePromise = "pending"
  /\ reactions = <<>>
  /\ jobs = <<>>
  /\ issued = <<>>
  /\ executed = <<>>
  /\ dispatchEventName = Null
  /\ appEntry = Null
  /\ bootstrap = TRUE
  /\ evals = <<>>
  /\ raised = <<>>
  /\ timers = {}
  /\ delivered = <<>>
  /\ tornDown = FALSE

InitDispatch ==
  /\ actions \in Documents
  /\ calculationOrder \in CalculationOrders
  /\ fieldValue = InitialValue
  /\ docEvent = NoEvent
  /\ globalEvent = NoEvent
  /\ sent = <<>>
  /\ log = <<>>
  /\ lastEvent = NoEvent
  /\ SandboxIdle
  /\ evalThrows = TRUE
  /\ ProxiesFresh
  /\ MoreIdle

\* what a dispatch leaves behind
Delivered(m) ==
  /\ fieldValue' = m.val
  /\ docEvent' = m.ev
  /\ sent' = m.sent
  /\ log' = m.log

DeliveredInline(m) ==
  /\ fieldValue' = m.val
  /\ globalEvent' = m.ev
  /\ sent' = m.sent
  /\ log' = m.log

\* App._dispatchEvent -> EventDispatcher.dispatch
DispatchEvent(baseEvent) ==
  /\ lastEvent = NoEvent
  /\ lastEvent' = baseEvent
  /\ Delivered(dispatch(Machine, baseEvent))
  /\ UNCHANGED <<actions, calculationOrder, globalEvent>>
  /\ UNCHANGED <<sbxVars, proxyVars, moreVars>>

\* App._dispatchEvent of the App class without an EventDispatcher
InlineDispatchEvent(pdfEvent) ==
  /\ lastEvent = NoEvent
  /\ lastEvent' = pdfEvent
  /\ DeliveredInline(App_dispatchEvent([Machine EXCEPT !.ev = globalEvent], pdfEvent))
  /\ UNCHANGED <<actions, calculationOrder, docEvent>>
  /\ UNCHANGED <<sbxVars, proxyVars, moreVars>>

NextDispatch ==
  \/ \E e \in BaseEvents : DispatchEvent(e)
  \/ \E e \in InlineEvents : InlineDispatchEvent(e)

Spec == InitDispatch /\ [][NextDispatch]_vars

-----------------------------------------------------------------------------
(* The QuickJS front-end: QuickJSSandbox() and class Sandbox.               *)

EntryNames == {"n1", "n2"}

\* createSandbox(code): code.dispatchEventName, and whether code.code is a
\* bundle the interpreter evaluates without error
CreateCalls(n) ==
  [n : {n}, op : {"create"}, name : EntryNames, arg : {"ok", "bad"}]
\* dispatchEventInSandbox(data): what the document's actions do when the
\* event reaches them: write a field (an Update) or call app.setTimeOut
DispatchCalls(n) ==
  [n : {n}, op : {"dispatch"}, name : {Null}, arg : {"update", "timer"}]

\* Mutant of AddReaction: the newest callback is run first.
AddReaction_Front(queue, cb) == <<cb>> \o queue

\* promise.then(cb): callbacks of one promise are queued in the order attached
AddReaction(queue, cb) == Append(queue, cb)

TheSandbox ==
  [dispatchEventName |-> dispatchEventName, appEntry |-> appEntry,
   bootstrap |-> bootstrap, evals |-> evals, raised |-> raised,
   timers |-> timers, delivered |-> delivered]

EvalEntry(text, n, ok) == [text |-> text, call |-> n, ok |-> ok]

\* Mutant of Sandbox.create: the bootstrap-only globals are left in place.
Sandbox_create_KeepsGlobals(sb, call) ==
  LET s1 == [sb EXCEPT !.dispatchEventName = call.name]
      ok == call.arg = "ok" /\ sb.bootstrap
      s2 == [s1 EXCEPT !.evals = Append(@, EvalEntry("code", call.n, ok)),
                       !.appEntry = IF ok THEN call.name ELSE @]
  IN IF ~ok /\ evalThrows
     THEN [s2 EXCEPT !.raised = Append(@, [call |-> call.n, error |-> "eval"])]
     ELSE s2

\* Sandbox.create
Sandbox_create(sb, call) ==
  LET s1 == [sb EXCEPT !.dispatchEventName = call.name]
      \* the bundle builds App and Doc from the globals send, setTimeout, ...
      ok == call.arg = "ok" /\ sb.bootstrap
      s2 == [s1 EXCEPT !.evals = Append(@, EvalEntry("code", call.n, ok)),
                       !.appEntry = IF ok THEN call.name ELSE @]
      s3 == [s2 EXCEPT !.evals = Append(@, EvalEntry("delete", call.n, TRUE)),
                       !.bootstrap = FALSE]
  IN IF ~ok /\ evalThrows
     THEN [s2 EXCEPT !.raised = Append(@, [call |-> call.n, error |-> "eval"])]
     ELSE s3

\* Sandbox.dispatchEvent
Sandbox_dispatchEvent(sb, call) ==
  IF sb.dispatchEventName = Null
  THEN [sb EXCEPT !.raised =
          Append(@, [call |-> call.n, error |-> "Sandbox must have been initialized"])]
  ELSE LET reached == sb.appEntry # Null /\ sb.appEntry = sb.dispatchEventName
           s1 == [sb EXCEPT !.evals = Append(@, EvalEntry("event", call.n, reached))]
       IN IF reached
          THEN IF call.arg = "timer"
               THEN [s1 EXCEPT !.timers = @ \cup {call.n}]
               ELSE [s1 EXCEPT !.delivered =
                       Append(@, [call |-> call.n, afterTeardown |-> tornDown])]
          ELSE IF evalThrows
               THEN [s1 EXCEPT !.raised = Append(@, [call |-> call.n, error |-> "eval"])]
               ELSE s1

InitSandbox ==
  /\ actions = [f \in FieldIds |-> NoActions]
  /\ calculationOrder = <<>>
  /\ fieldValue = InitialValue
  /\ docEvent = NoEvent
  /\ globalEvent = NoEvent
  /\ sent = <<>>
  /\ log = <<>>
  /\ lastEvent = NoEvent
  /\ SandboxIdle
  /\ evalThrows \in BOOLEAN
  /\ ProxiesFresh
  /\ MoreIdle

\* createSandbox / dispatchEventInSandbox: promise.then(sbx => sbx.<op>(arg))
HostCall(call) ==
  /\ ~tornDown
  /\ Len(issued) < MaxCalls
  /\ issued' = Append(issued, call)
  /\ CASE modulePromise = "pending" ->
            /\ reactions' = AddReaction(reactions, call)
            /\ jobs' = jobs
       [] modulePromise = "resolved" ->
            /\ jobs' = AddReaction(jobs, call)
            /\ reactions' = reactions
       [] OTHER -> UNCHANGED <<reactions, jobs>>
  /\ UNCHANGED <<modulePromise, executed, dispatchEventName, appEntry, bootstrap,
                 evals, raised, timers, delivered, tornDown, evalThrows>>
  /\ UNCHANGED <<dispVars, proxyVars, moreVars>>

createSandbox == \E code \in CreateCalls(Len(issued) + 1) : HostCall(code)

dispatchEventInSandbox == \E data \in DispatchCalls(Len(issued) + 1) : HostCall(data)

\* ModuleLoader() resolves: new Sandbox(module); the attached callbacks become jobs
ModuleLoaded ==
  /\ modulePromise = "pending"
  /\ modulePromise' = "resolved"
  /\ jobs' = jobs \o reactions
  /\ reactions' = <<>>
  /\ UNCHANGED <<issued, executed, dispatchEventName, appEntry, bootstrap,
                 evals, raised, timers, delivered, tornDown, evalThrows>>
  /\ UNCHANGED <<dispVars, proxyVars, moreVars>>

\* ModuleLoader() rejects: no callback ever runs
ModuleFailed ==
  /\ modulePromise = "pending"
  /\ modulePromise' = "rejected"
  /\ reactions' = <<>>
  /\ UNCHANGED <<jobs, issued, executed, dispatchEventName, appEntry, bootstrap,
                 evals, raised, timers, delivered, tornDown, evalThrows>>
  /\ UNCHANGED <<dispVars, proxyVars, moreVars>>

\* one promise job: sbx => sbx.create(code) or sbx => sbx.dispatchEvent(data)
RunJob ==
  /\ jobs # <<>>
  /\ LET call == Head(jobs)
         sb == IF call.op = "create"
               THEN Sandbox_create(TheSandbox, call)
               ELSE Sandbox_dispatchEvent(TheSandbox, call)
     IN /\ dispatchEventName' = sb.dispatchEventName
        /\ appEntry' = sb.appEntry
        /\ bootstrap' = sb.bootstrap
        /\ evals' = sb.evals
        /\ raised' = sb.raised
        /\ timers' = sb.timers
        /\ delivered' = sb.delivered
        /\ executed' = Append(executed, call)
  /\ jobs' = Tail(jobs)
  /\ UNCHANGED <<modulePromise, reactions, issued, tornDown, evalThrows>>
  /\ UNCHANGED <<dispVars, proxyVars, moreVars>>

\* The host gives up the instance: the object returned by QuickJSSandbox() has
\* no entry to call, so nothing of the instance changes.
HostTeardown ==
  /\ ~tornDown
  /\ tornDown' = TRUE
  /\ UNCHANGED <<modulePromise, reactions, jobs, issued, executed, dispatchEventName,
                 appEntry, bootstrap, evals, raised, timers, delivered, evalThrows>>
  /\ UNCHANGED <<dispVars, proxyVars, moreVars>>

NextSandbox ==
  \/ createSandbox
  \/ dispatchEventInSandbox
  \/ ModuleLoaded
  \/ ModuleFailed
  \/ RunJob
  \/ HostTeardown

SpecSandbox == InitSandbox /\ [][NextSandbox]_vars

-----------------------------------------------------------------------------
(* Scripts at work on the proxies.                                         *)
InitProxy ==
  /\ actions = [f \in FieldIds |-> NoActions]
  /\ calculationOrder = <<>>
  /\ fieldValue = InitialValue
  /\ docEvent = NoEvent
  /\ globalEvent = NoEvent
  /\ sent = <<>>
  /\ log = <<>>
  /\ lastEvent = NoEvent
  /\ SandboxIdle
  /\ evalThrows = TRUE
  /\ ProxiesFresh
  /\ MoreIdle

TrapsLeft == lastOp.n < MaxTraps

\* a script reads proxy.prop
GetOnObject(o, prop) ==
  /\ TrapsLeft
  /\ LET r == ObjectGet(realProps[o], fakeProps[o], prop)
     IN lastOp' = Outcome(lastOp.n + 1, "get", o, prop, Undefined, r.result, r.threw)
  /\ UNCHANGED <<realProps, fakeProps, ctxGlobal, posted>>
  /\ UNCHANGED <<dispVars, sbxVars, moreVars>>

\* a script assigns proxy.prop = v
SetOnObject(o, prop, v) ==
  /\ TrapsLeft
  /\ LET r == ObjectSet(realProps[o], fakeProps[o], prop, v)
     IN /\ realProps' = [realProps EXCEPT ![o] = r.real]
        /\ fakeProps' = [fakeProps EXCEPT ![o] = r.fake]
        /\ posted' = posted \o r.msgs
        /\ lastOp' = Outcome(lastOp.n + 1, "set", o, prop, v, Undefined, FALSE)
  /\ UNCHANGED ctxGlobal
  /\ UNCHANGED <<dispVars, sbxVars, moreVars>>

\* a script evaluates (prop in proxy)
HasOnObject(o, prop) ==
  /\ TrapsLeft
  /\ lastOp' = Outcome(lastOp.n + 1, "has", o, prop, Undefined,
                       ObjectHas(realProps[o], fakeProps[o], prop).result,
                       ObjectHas(realProps[o], fakeProps[o], prop).threw)
  /\ UNCHANGED <<realProps, fakeProps, ctxGlobal, posted>>
  /\ UNCHANGED <<dispVars, sbxVars, moreVars>>

\* the with-scope lookup of an identifier asks the proxied context
HasOnContext(prop) ==
  /\ TrapsLeft
  /\ lastOp' = Outcome(lastOp.n + 1, "has", "context", prop, Undefined,
                       ContextHas(ctxGlobal, prop).result,
                       ContextHas(ctxGlobal, prop).threw)
  /\ UNCHANGED <<realProps, fakeProps, ctxGlobal, posted>>
  /\ UNCHANGED <<dispVars, sbxVars, moreVars>>

\* a script resolves an identifier
GetOnContext(prop) ==
  /\ TrapsLeft
  /\ LET r == ContextGet(ctxGlobal, prop)
     IN lastOp' = Outcome(lastOp.n + 1, "get", "context", prop, Undefined, r.result, r.threw)
  /\ UNCHANGED <<realProps, fakeProps, ctxGlobal, posted>>
  /\ UNCHANGED <<dispVars, sbxVars, moreVars>>

\* a script assigns to an identifier
SetOnContext(prop, v) ==
  /\ TrapsLeft
  /\ ctxGlobal' = ContextSet(ctxGlobal, prop, v)
  /\ lastOp' = Outcome(lastOp.n + 1, "set", "context", prop, v, Undefined, FALSE)
  /\ UNCHANGED <<realProps, fakeProps, posted>>
  /\ UNCHANGED <<dispVars, sbxVars, moreVars>>

NextProxy ==
  \/ \E o \in Wrapped, prop \in ObjectNames : GetOnObject(o, prop)
  \/ \E o \in Wrapped, prop \in ObjectNames, v \in ScriptValues : SetOnObject(o, prop, v)
  \/ \E prop \in ContextNames : GetOnContext(prop)
  \/ \E o \in Wrapped, prop \in ObjectNames : HasOnObject(o, prop)
  \/ \E prop \in ContextNames : HasOnContext(prop)
  \/ \E prop \in ContextNames, v \in ScriptValues : SetOnContext(prop, v)

SpecProxy == InitProxy /\ [][NextProxy]_vars

-----------------------------------------------------------------------------
(* Scripts using the unsupported members.                                  *)
InitApi ==
  /\ actions = [f \in FieldIds |-> NoActions]
  /\ calculationOrder = <<>>
  /\ fieldValue = InitialValue
  /\ docEvent = NoEvent
  /\ globalEvent = NoEvent
  /\ sent = <<>>
  /\ log = <<>>
  /\ lastEvent = NoEvent
  /\ SandboxIdle
  /\ evalThrows = TRUE
  /\ ProxiesFresh
  /\ MoreIdle

UseMember(obj, member, kind) ==
  /\ Len(apiLog) < MaxAccesses
  /\ apiLog' = Append(apiLog, [obj |-> obj, member |-> member, kind |-> kind,
                               outcome |-> Member_access(obj, member, kind)])
  /\ UNCHANGED exceptApi

NextApi == \E a \in Accesses : UseMember(a[1], a[2], a[3])

SpecApi == InitApi /\ [][NextApi]_vars

-----------------------------------------------------------------------------
(* The host posting messages to the postMessage sandbox.                   *)
InitHandler ==
  /\ actions = [f \in FieldIds |-> NoActions]
  /\ calculationOrder = <<>>
  /\ fieldValue = InitialValue
  /\ docEvent = NoEvent
  /\ globalEvent = NoEvent
  /\ sent = <<>>
  /\ log = <<>>
  /\ lastEvent = NoEvent
  /\ SandboxIdle
  /\ evalThrows = TRUE
  /\ ProxiesFresh
  /\ MoreIdle

Outcome_handle(message, r) ==
  /\ hObjects' = r.objects
  /\ hLast' = [message |-> message, threw |-> r.threw, dispatched |-> r.dispatched]

\* window.messageHandler.handle(e.data)
HandleMessage(message, ambient) ==
  /\ hCount < MaxMessages
  /\ hCount' = hCount + 1
  /\ Outcome_handle(message, handle(hObjects, message, ambient))
  /\ UNCHANGED exceptHandler

NextHandler == \E message \in Messages, ambient \in Ambients : HandleMessage(message, ambient)

SpecHandler == InitHandler /\ [][NextHandler]_vars

-----------------------------------------------------------------------------
(* The host generating the bundle for a document.                          *)
InitGen ==
  /\ actions = [f \in FieldIds |-> NoActions]
  /\ calculationOrder = <<>>
  /\ fieldValue = InitialValue
  /\ docEvent = NoEvent
  /\ globalEvent = NoEvent
  /\ sent = <<>>
  /\ log = <<>>
  /\ lastEvent = NoEvent
  /\ SandboxIdle
  /\ evalThrows = TRUE
  /\ ProxiesFresh
  /\ MoreIdle

\* generateCode returns once a draw is free of collisions
GenerateCode(objects, draws) ==
  /\ genResult = NoCode
  /\ generateCode(objects, draws).dispatchEventName = draws[Len(draws)]
  /\ \A i \in 1..(Len(draws) - 1) :
       generateRandomString(allActions(allObjects(objects)), <<draws[i]>>, 1) = Looping
  /\ genInput' = [objects |-> objects, draws |-> draws]
  /\ genResult' = generateCode(objects, draws)
  /\ UNCHANGED exceptGen

NextGen == \E objects \in GenObjects, draws \in Draws : GenerateCode(objects, draws)

SpecGen == InitGen /\ [][NextGen]_vars

-----------------------------------------------------------------------------
(* Scripts calling util.printd and util.scand.                             *)
InitUtil ==
  /\ actions = [f \in FieldIds |-> NoActions]
  /\ calculationOrder = <<>>
  /\ fieldValue = InitialValue
  /\ docEvent = NoEvent
  /\ globalEvent = NoEvent
  /\ sent = <<>>
  /\ log = <<>>
  /\ lastEvent = NoEvent
  /\ SandboxIdle
  /\ evalThrows = TRUE
  /\ ProxiesFresh
  /\ ApiIdle
  /\ HandlerIdle
  /\ GenIdle
  /\ PrintfIdle
  /\ CallIdle
  /\ PageIdle
  \* Util's constructor creates _scandCache; whether the instance also has a
  \* scandCache is up to PDFObject
  /\ scandCache \in {NoCache, EmptyCache}
  /\ utilLast = NoCall
  /\ utilCount = 0

CallPrintd(cFormat, cDate) ==
  /\ utilCount < MaxUses
  /\ utilCount' = utilCount + 1
  /\ \E out \in {printd(cFormat, cDate)} :
       utilLast' = UtilCall("printd", cFormat, cDate, "", out.threw, out.text, NoDate)
  /\ UNCHANGED <<scandCache, exceptUtil>>

CallScand(cFormat, cDate) ==
  /\ utilCount < MaxUses
  /\ utilCount' = utilCount + 1
  /\ \E out \in {scand(cFormat, cDate, scandCache)} :
       /\ utilLast' = UtilCall("scand", cFormat, NoDate, cDate, out.threw, "", out.date)
       /\ scandCache' = out.cache
  /\ UNCHANGED exceptUtil

\* util.scand(cFormat, util.printd(cFormat, cDate))
CallScandOfPrintd(cFormat, cDate) ==
  /\ utilCount < MaxUses
  /\ utilCount' = utilCount + 1
  /\ \E printed \in {printd(cFormat, cDate)} :
       /\ printed.threw = "none"
       /\ \E out \in {scand(cFormat, printed.text, scandCache)} :
            /\ utilLast' = UtilCall("scand of printd", cFormat, cDate, printed.text,
                                    out.threw, "", out.date)
            /\ scandCache' = out.cache
  /\ UNCHANGED exceptUtil

CallPrintx(cFormat, cSource) ==
  /\ utilCount < MaxUses
  /\ utilCount' = utilCount + 1
  /\ utilLast' = UtilCall("printx", cFormat, NoDate, cSource, "none",
                          printx(cFormat, cSource), NoDate)
  /\ UNCHANGED <<scandCache, exceptUtil>>

NextUtil ==
  \/ \E cFormat \in Templates, cSource \in Sources : CallPrintx(cFormat, cSource)
  \/ \E cFormat \in Formats, cDate \in Dates : CallPrintd(cFormat, cDate)
  \/ \E cFormat \in Formats, cDate \in Texts : CallScand(cFormat, cDate)
  \/ \E cFormat \in FullFormats, cDate \in Dates : CallScandOfPrintd(cFormat, cDate)

SpecUtil == InitUtil /\ [][NextUtil]_vars

-----------------------------------------------------------------------------
(* Scripts calling util.printf.                                            *)
InitPrintf ==
  /\ actions = [f \in FieldIds |-> NoActions]
  /\ calculationOrder = <<>>
  /\ fieldValue = InitialValue
  /\ docEvent = NoEvent
  /\ globalEvent = NoEvent
  /\ sent = <<>>
  /\ log = <<>>
  /\ lastEvent = NoEvent
  /\ SandboxIdle
  /\ evalThrows = TRUE
  /\ ProxiesFresh
  /\ MoreIdle

\* util.printf("%,p1.nPrecisionf", arg)
CallPrintf(p1, nPrecision, arg) ==
  /\ numCount < MaxPrints
  /\ numCount' = numCount + 1
  /\ numLast' = Printf("printf", p1, nPrecision, arg, printf_f(p1, nPrecision, {}, arg), "")
  /\ UNCHANGED exceptPrintf

\* the text of the last call parsed and printed again with the same conversion
CallPrintfOfParsed ==
  /\ numCount < MaxPrints
  /\ numLast.op = "printf"
  /\ numCount' = numCount + 1
  /\ numLast' = Printf("printf of parsed", numLast.p1, numLast.nPrecision,
                       parseFloat(numLast.out),
                       printf_f(numLast.p1, numLast.nPrecision, {}, parseFloat(numLast.out)),
                       numLast.out)
  /\ UNCHANGED exceptPrintf

NextPrintf ==
  \/ \E p1 \in SepStyles, nPrecision \in Precisions, milli \in PrintfValues :
       CallPrintf(p1, nPrecision, Num(milli))
  \/ CallPrintfOfParsed

SpecPrintf == InitPrintf /\ [][NextPrintf]_vars

------------------------------------------------------------------------------
(* Scripts calling the public methods.                                      *)
InitPublics ==
  /\ actions = [f \in FieldIds |-> NoActions]
  /\ calculationOrder = <<>>
  /\ fieldValue = InitialValue
  /\ docEvent = NoEvent
  /\ globalEvent = NoEvent
  /\ sent = <<>>
  /\ log = <<>>
  /\ lastEvent = NoEvent
  /\ SandboxIdle
  /\ evalThrows = TRUE
  /\ ProxiesFresh
  /\ MoreIdle

CallAFMakeNumber(str) ==
  /\ callLast = NoApply
  /\ callCount' = callCount + 1
  /\ callLast' = Call("AFMakeNumber", str, "", <<>>, "none", AFMakeNumber(str), "")
  /\ UNCHANGED exceptCall

CallAFSimple_Calculate(cFunction, cFields) ==
  /\ callLast = NoApply
  /\ callCount' = callCount + 1
  /\ \E out \in {AFSimple_Calculate(cFunction, cFields, EventBefore)} :
       callLast' = Call("AFSimple_Calculate", UndefinedValue, cFunction, cFields,
                        out.threw, Num(0), out.value)
  /\ UNCHANGED exceptCall

NextPublics ==
  \/ \E str \in NumberInputs : CallAFMakeNumber(str)
  \/ \E cFunction \in FunctionNames \cup {"MED"},
        cFields \in SeqsUpTo(FieldTexts, MaxFields) :
       CallAFSimple_Calculate(cFunction, cFields)

SpecPublics == InitPublics /\ [][NextPublics]_vars

------------------------------------------------------------------------------
(* The sandbox page: sandboxLoad and the messages posted to its window.     *)
InitPage ==
  /\ actions = [f \in FieldIds |-> NoActions]
  /\ calculationOrder = <<>>
  /\ fieldValue = InitialValue
  /\ docEvent = NoEvent
  /\ globalEvent = NoEvent
  /\ sent = <<>>
  /\ log = <<>>
  /\ lastEvent = NoEvent
  /\ SandboxIdle
  /\ evalThrows = TRUE
  /\ ProxiesFresh
  /\ MoreIdle

\* the import of sandbox.js resolves: window.addEventListener("message", ...)
ImportResolved ==
  /\ ~listening
  /\ listening' = TRUE
  /\ UNCHANGED <<messageHandler, received, pageLast, created, listeners, lsnLast>>
  /\ UNCHANGED <<handlerVars, exceptPage>>

\* a message posted to the window of the page
PostMessage(origin, source, data, ambient) ==
  /\ received < MaxMessages
  /\ received' = received + 1
  /\ pageLast' = [origin |-> origin, data |-> data]
  /\ IF listening /\ PassesOriginTest(origin)
     THEN /\ messageHandler' = IF messageHandler = NoHandler
                               THEN [window |-> source, origin |-> origin]
                               ELSE messageHandler
          /\ hCount' = hCount + 1
          /\ Outcome_handle(data, handle(hObjects, data, ambient))
     ELSE UNCHANGED <<messageHandler, handlerVars>>
  /\ UNCHANGED <<listening, created, listeners, lsnLast>>
  /\ UNCHANGED exceptPage

\* the messages of the page: few enough for three of them in a row
PageMessages ==
  { [name |-> "Create", id |-> Null, value |-> <<d>>] :
      d \in {x \in Descriptors : x.id = "1R" /\ x.subtype = "text"} }
    \cup { [name |-> "Event", id |-> i, value |-> <<>>] : i \in {"1R", UnknownId} }

NextPage ==
  \/ ImportResolved
  \/ \E origin \in Origins, data \in PageMessages, ambient \in Ambients :
       PostMessage(origin, origin, data, ambient)

SpecPage == InitPage /\ [][NextPage]_vars

------------------------------------------------------------------------------
(* One Field of the page and its Listeners.                                 *)

\* the Create branch of MessageHandler.handle: Field._new with its actions
CreateField(acts) ==
  /\ created = NoField
  /\ created' = acts
  /\ listeners' = Annotation(acts)
  /\ UNCHANGED <<listening, messageHandler, received, pageLast, lsnLast>>
  /\ UNCHANGED <<handlerVars, exceptPage>>

\* obj.real._isListeningFor(name)
AskIsListeningFor(name) ==
  /\ created # NoField
  /\ lsnLast' = [op |-> "_isListeningFor", name |-> name,
                 result |-> Annotation_isListeningFor(listeners, name),
                 ran |-> <<>>, threw |-> FALSE]
  /\ UNCHANGED <<listening, messageHandler, received, pageLast, created, listeners>>
  /\ UNCHANGED <<handlerVars, exceptPage>>

\* an Event message for the Field
HandleEvent(name, ambient) ==
  /\ created # NoField
  /\ lsnLast' = [op |-> "Event", name |-> name,
                 result |-> Annotation_isListeningFor(listeners, name),
                 ran |-> handleEvent(listeners, name, ambient).ran,
                 threw |-> handleEvent(listeners, name, ambient).threw]
  /\ UNCHANGED <<listening, messageHandler, received, pageLast, created, listeners>>
  /\ UNCHANGED <<handlerVars, exceptPage>>

AskedNames == {ListenerNames[k] : k \in DOMAIN ListenerNames} \cup {"Unknown"}

NextListeners ==
  \/ \E acts \in [ListenerTypes -> ListenerTexts] : CreateField(acts)
  \/ \E name \in AskedNames : AskIsListeningFor(name)
  \/ \E name \in AskedNames, ambient \in Ambients : HandleEvent(name, ambient)

SpecListeners == InitPage /\ [][NextListeners]_vars

-----------------------------------------------------------------------------
(* Reading the history of the last dispatch.                               *)
Dispatched == lastEvent # NoEvent
KnownId == Dispatched /\ lastEvent.id \in DOMAIN fieldValue
ViaDispatcher == Dispatched /\ lastEvent.kind = "event"
CommitDispatch ==
  /\ ViaDispatcher
  /\ KnownId
  /\ ReplaceFirstSpace(lastEvent.name) = "KeyStroke"
  /\ lastEvent.willCommit

IsUpdate(x) == x.type = "Update"
IsError(x) == x.type = "Error"
IsThrown(e) == e.kind = "script" /\ ~e.rc

Has(kind, pos, trig) ==
  \E i \in DOMAIN log : log[i].kind = kind /\ log[i].pos = pos /\ log[i].trig = trig

\* the source's Validate step of a commit dispatch left rc false
SourceRejected ==
  \E i \in DOMAIN log :
    log[i].kind = "end" /\ log[i].pos = 0 /\ log[i].trig = "Validate" /\ ~log[i].rc
SourceAccepted ==
  \E i \in DOMAIN log :
    log[i].kind = "end" /\ log[i].pos = 0 /\ log[i].trig = "Validate" /\ log[i].rc

WritesBefore(f, j) ==
  {i \in 1..(j - 1) : log[i].kind \in {"commit", "update"} /\ log[i].field = f}
StoredBefore(f, j) ==
  IF WritesBefore(f, j) = {} THEN InitialValue[f]
  ELSE log[CHOOSE i \in WritesBefore(f, j) : \A k \in WritesBefore(f, j) : k <= i].value

Occurrences(f) == {p \in DOMAIN calculationOrder : calculationOrder[p] = f}

-----------------------------------------------------------------------------
\* C1: dispatching an Event whose field id is not in the registry is a pure
\* no-op: no action runs, no message is sent, and no field value, Doc._event
\* or registry entry changes.
C1_UnknownIdIsNoOp ==
  [][lastEvent'.id \notin DOMAIN fieldValue =>
       UNCHANGED <<actions, calculationOrder, fieldValue, docEvent, globalEvent,
                   sent, log>>]_vars

C1_Witness ==
  /\ Dispatched
  /\ lastEvent.id = StaleId
  /\ lastEvent.kind = "event"
  /\ lastEvent.name = "KeyStroke"
  /\ lastEvent.willCommit
  /\ Len(calculationOrder) = 2
  /\ sent = <<>>

\* C2: in a commit dispatch the calculation order is walked in list order:
\* every step of an earlier entry precedes every step of a later one, a value
\* accepted for a target is stored before the next target's Calculate starts,
\* a script reading a field sees the value stored last, and the value Updates
\* of two distinct targets leave in the order of the list.
C2_CalculateInListOrder ==
  CommitDispatch =>
    /\ \A i, j \in DOMAIN log :
         (i < j /\ log[i].pos >= 1 /\ log[j].pos >= 1) => log[i].pos <= log[j].pos
    /\ \A k \in DOMAIN log :
         (log[k].kind = "step" /\ log[k].trig = "Format" /\ log[k].pos >= 1) =>
           LET f == calculationOrder[log[k].pos]
           IN StoredBefore(f, k) = log[k].value
    /\ \A k \in DOMAIN log :
         (log[k].kind = "read" /\ log[k].field \in DOMAIN fieldValue) =>
           log[k].value = StoredBefore(log[k].field, k)
    /\ \A p, q \in DOMAIN calculationOrder :
         LET f == calculationOrder[p]
             g == calculationOrder[q]
         IN (p < q /\ f # g /\ Occurrences(f) = {p} /\ Occurrences(g) = {q}
               /\ lastEvent.id \notin {f, g}) =>
              \A i, j \in DOMAIN sent :
                (IsUpdate(sent[i]) /\ sent[i].id = f
                   /\ IsUpdate(sent[j]) /\ sent[j].id = g) => i < j

C2_Witness ==
  /\ CommitDispatch
  /\ lastEvent.id = "C"
  /\ calculationOrder = <<"A", "B">>
  /\ actions["A"]["Calculate"] = <<Set("X")>>
  /\ actions["B"]["Calculate"] = <<Read("A")>>
  /\ fieldValue["B"] = "X$"
  /\ sent = <<UpdateMsg("A", "value", "X$"), UpdateMsg("B", "value", "X$")>>

\* C3: when the source's Validate actions leave rc false in a commit dispatch,
\* the source's stored value is not changed, no field of the calculation order
\* has a Calculate, Validate or Format step, and the source's Format does not run.
C3_RejectedValidateStopsCommit ==
  (CommitDispatch /\ SourceRejected) =>
    /\ \A i \in DOMAIN log : log[i].pos = 0
    /\ \A i \in DOMAIN log : log[i].kind \notin {"commit", "update"}
    /\ \A i \in DOMAIN log : log[i].trig # "Format"
    /\ \A i \in DOMAIN log : log[i].trig # "Calculate"
    /\ fieldValue[lastEvent.id] = InitialValue[lastEvent.id]
    /\ \A i \in DOMAIN sent : ~IsUpdate(sent[i])

C3_Witness ==
  /\ CommitDispatch
  /\ SourceRejected
  /\ lastEvent.value = "k"
  /\ actions[lastEvent.id]["Format"] # <<>>
  /\ Len(calculationOrder) = 2
  /\ \A p \in DOMAIN calculationOrder :
       /\ calculationOrder[p] \in DOMAIN fieldValue
       /\ actions[calculationOrder[p]]["Calculate"] # <<>>

\* C4: an action that throws during the calculation-order pass does not end
\* the pass: every registered entry of the calculation order still has its
\* Calculate and Validate steps (and its Format step when Validate accepts),
\* and each throwing action gives exactly one Error message, naming its field
\* id and its trigger.
ThrownEntries == SelectSeq(log, IsThrown)
ErrorsSent == SelectSeq(sent, IsError)

C5_EveryActionOfTheTriggerRuns ==
  \A i \in DOMAIN log :
    (log[i].kind = "script"
       /\ log[i].idx < Len(actions[log[i].field][log[i].trig])) =>
      \E j \in DOMAIN log :
        /\ j > i
        /\ log[j].kind = "script"
        /\ log[j].field = log[i].field
        /\ log[j].trig = log[i].trig
        /\ log[j].pos = log[i].pos
        /\ log[j].idx = log[i].idx + 1

-----------------------------------------------------------------------------
\* C6: createSandbox and dispatchEventInSandbox calls run against the sandbox
\* in exactly the order they were issued, whether they were issued before or
\* after the module promise resolved: what has run is a prefix of what was
\* issued, and what waits is the rest, in order.
C6_CallsRunInIssueOrder ==
  /\ Len(executed) <= Len(issued)
  /\ \A i \in DOMAIN executed : executed[i] = issued[i]
  /\ modulePromise # "rejected" => executed \o jobs \o reactions = issued
  /\ modulePromise = "pending" => jobs = <<>>
  /\ modulePromise = "resolved" => reactions = <<>>

C6_Witness ==
  /\ Len(executed) = 3
  /\ executed[1].op = "create"
  /\ executed[2].op = "dispatch"
  /\ executed[3].op = "dispatch"
  /\ \E k \in DOMAIN evals : evals[k].text = "event" /\ evals[k].ok

\* C7: an Event is evaluated inside the sandbox only if a create has completed
\* successfully before: a dispatchEvent on a sandbox never created raises
\* 'Sandbox must have been initialized' and evaluates nothing, and no event text
\* is handed to the interpreter unless a bundle was evaluated without error.
SuccessfulCreateBefore(k) ==
  \E j \in 1..(k - 1) : evals[j].text = "code" /\ evals[j].ok

C8_TeardownSilencesTheInstance ==
  tornDown =>
    /\ timers = {}
    /\ \A i \in DOMAIN delivered : ~delivered[i].afterTeardown

-----------------------------------------------------------------------------
\* C9: reading a name through a capability proxy never throws and never
\* exposes internal state: the result is the public property's value, else a
\* public method of that name, else undefined; a value stored by the script
\* itself under the name is the only other thing it may be.
SecretValues == {"internal-id", "internal-sender"}

C9_GetNeverThrowsNorLeaks ==
  lastOp.op = "get" =>
    /\ ~lastOp.threw
    /\ lastOp.result \notin SecretValues
    /\ \/ lastOp.result \in ScriptValues
       \/ /\ lastOp.obj \in Wrapped
          /\ lastOp.result =
               IF isPublicProperty(DOMAIN realProps[lastOp.obj], lastOp.prop)
               THEN realProps[lastOp.obj][lastOp.prop] ELSE Undefined
       \/ /\ lastOp.obj = "context"
          /\ lastOp.result =
               IF lastOp.prop \in DOMAIN ctxGlobal THEN ctxGlobal[lastOp.prop]
               ELSE IF isPublicProperty(PublicMethodsMembers, lastOp.prop)
                    THEN MethodOf(lastOp.prop) ELSE Undefined

\* C10: an assignment to a public property through the proxy of an object
\* with a sender changes that property and posts exactly one message with the
\* object's id, the property name and the new value; an assignment to any
\* other name posts nothing.
C10_PublicSetSendsOneUpdate ==
  [][(lastOp'.op = "set" /\ lastOp'.obj \in Wrapped) =>
       LET o == lastOp'.obj
           prop == lastOp'.prop
           v == lastOp'.value
       IN IF isPublicProperty(DOMAIN realProps[o], prop)
          THEN /\ realProps'[o][prop] = v
               /\ realProps[o]["_sender"] # Null =>
                    posted' = Append(posted, PostedMsg(realProps[o]["_id"], prop, v))
          ELSE posted' = posted]_vars

C10_Witness ==
  /\ lastOp.op = "set"
  /\ lastOp.obj = FieldObj
  /\ lastOp.prop = "value"
  /\ lastOp.value = "s2"
  /\ realProps[FieldObj]["value"] = "s2"
  /\ posted = <<PostedMsg("internal-id", "value", "s2")>>

-----------------------------------------------------------------------------
\* C11: an assignment through the proxy to a name that is no public property
\* changes no property of the wrapped object, and a get of that name through
\* the same proxy right after it returns the assigned value.
C11_NonPublicSetRoundTrips ==
  [][(lastOp'.op = "set" /\ lastOp'.obj \in Wrapped
        /\ ~isPublicProperty(DOMAIN realProps[lastOp'.obj], lastOp'.prop)) =>
       /\ realProps' = realProps
       /\ ObjectGet(realProps'[lastOp'.obj], fakeProps'[lastOp'.obj], lastOp'.prop)
            = [result |-> lastOp'.value, threw |-> FALSE]]_vars

\* C12: the has trap of every capability proxy answers true, whatever the
\* name: defined, private or never set.
C12_HasIsAlwaysTrue ==
  lastOp.op = "has" => (~lastOp.threw /\ lastOp.result = TRUE)

-----------------------------------------------------------------------------
\* C13: every use of an unsupported member of App or Doc, read, assignment
\* or call, raises NotSupportedError; none returns undefined or does nothing.
C13_UnsupportedAlwaysRaises ==
  \A i \in DOMAIN apiLog : apiLog[i].outcome = "NotSupportedError"

-----------------------------------------------------------------------------
\* C14: a message with an unknown name, and an Event message whose id no
\* Create has registered, are dropped: handle does not throw and the
\* registry with every registered field's value stays as it was.
C14_UnknownMessagesAreDropped ==
  [][(hLast'.message.name \notin {"Event", "Create"}
        \/ (hLast'.message.name = "Event" /\ hLast'.message.id \notin DOMAIN hObjects)) =>
       (~hLast'.threw /\ hObjects' = hObjects)]_vars

-----------------------------------------------------------------------------
\* C15: the dispatch entry-point name generateCode returns is contained in
\* no action script of any field object it was given.
C15_EntryNameInNoScript ==
  genResult # NoCode =>
    \A name \in DOMAIN genInput.objects :
      \A i \in DOMAIN genInput.objects[name] :
        \A k \in DOMAIN genInput.objects[name][i].actions["K"] :
          ~Includes(genInput.objects[name][i].actions["K"][k],
                    genResult.dispatchEventName)

C15_Witness ==
  /\ genResult # NoCode
  /\ Len(genInput.draws) = 2
  /\ genInput.draws[1] = "aQ"
  /\ genResult.dispatchEventName = "Zz"
  /\ "g" \in DOMAIN genInput.objects
  /\ genInput.objects["g"][1].actions["K"] = <<"x=1", "y=b7aQ">>

-----------------------------------------------------------------------------
\* C16: no event is evaluated in an interpreter where the bootstrap-only
\* globals (send, setTimeout, clearTimeout, setInterval, clearInterval) are
\* still resolvable: their deletion precedes the first evaluated dispatch.
C16_DeletionPrecedesFirstDispatch ==
  /\ \A k \in DOMAIN evals :
       (evals[k].text = "code" /\ evals[k].ok) =>
         /\ k + 1 \in DOMAIN evals
         /\ evals[k + 1].text = "delete"
         /\ evals[k + 1].call = evals[k].call
  /\ \A k \in DOMAIN evals :
       (evals[k].text = "event" /\ evals[k].ok) =>
         \E j \in 1..(k - 1) : evals[j].text = "delete"
  /\ (\E k \in DOMAIN evals : evals[k].text = "event" /\ evals[k].ok) => ~bootstrap

C16_Witness ==
  /\ Len(evals) = 3
  /\ evals[1].text = "code" /\ evals[1].ok
  /\ evals[2].text = "delete"
  /\ evals[3].text = "event" /\ evals[3].ok
  /\ ~bootstrap

\* C17: every widget descriptor the host supplies is registered under its
\* own id by the generated code, also when several widgets share one field
\* name.
C17_EverySuppliedIdIsRegistered ==
  genResult # NoCode =>
    \A name \in DOMAIN genInput.objects :
      \A i \in DOMAIN genInput.objects[name] :
        genInput.objects[name][i].id \in genResult.registered

\* C18: round trip.  For every format that carries year, month, day, hour,
\* minute and second tokens, the shorthand formats "0", "1" and "2"
\* included, and every date d to the second, scand(format, printd(format, d))
\* returns d.
C18_ScandInvertsPrintd ==
  utilLast.op = "scand of printd" =>
    /\ utilLast.threw = "none"
    /\ utilLast.outDate = utilLast.date

\* C19: scand is strict.  Whenever the text does not match the expression
\* compiled from the format, scand raises the date-parse error a script can
\* tell from other errors; it neither returns a date nor fails with another
\* kind of error.
C19_MismatchRaisesTheParseError ==
  ( /\ utilLast.op = "scand"
    /\ utilLast.format \in FullFormats
    /\ ~exec(Regex(Escaped(Shorthand(utilLast.format), 1), 1), utilLast.text).ok )
  => utilLast.threw = "Error"

\* C20: scand with a shorthand format parses a text written in the matching
\* canonical pattern into the date it denotes: "0" with "D:17070415031415"
\* and "1" with "1707.04.15 03:14:15" give April 15 1707 03:14:15, and "2"
\* with "4/15/07 3:14:15 am" gives April 15 2007 03:14:15.
C20_ShorthandScenarios ==
  utilLast.op = "scand" =>
    /\ (utilLast.format = "0" /\ utilLast.text = "D:17070415031415") =>
         (utilLast.threw = "none" /\ utilLast.outDate = DateOf(1707, 3, 15, 3, 14, 15))
    /\ (utilLast.format = "1" /\ utilLast.text = "1707.04.15 03:14:15") =>
         (utilLast.threw = "none" /\ utilLast.outDate = DateOf(1707, 3, 15, 3, 14, 15))
    /\ (utilLast.format = "2" /\ utilLast.text = "4/15/07 3:14:15 am") =>
         (utilLast.threw = "none" /\ utilLast.outDate = DateOf(2007, 3, 15, 3, 14, 15))

\* C21: printd replaces every token of the format by the rendering of the
\* date's field and passes the other characters through: the shorthand
\* formats "0", "1" and "2" print what their canonical patterns print, and
\* the name tokens print names, "April Apr 04 4" for "mmmm mmm mm m" and
\* "Friday Fri 15 15" for "dddd ddd dd d" on April 15 1707.
C21_PrintdRendersEveryToken ==
  utilLast.op = "printd" =>
    /\ utilLast.threw = "none"
    /\ utilLast.format \in {"0", "1", "2"} =>
         utilLast.outText = printd(Shorthand(utilLast.format), utilLast.date).text
    /\ (utilLast.format = "0" /\ utilLast.date = DateOf(1707, 3, 15, 3, 14, 15)) =>
         utilLast.outText = "D:17070415031415"
    /\ (utilLast.format = "1" /\ utilLast.date = DateOf(1707, 3, 15, 3, 14, 15)) =>
         utilLast.outText = "1707.04.15 03:14:15"
    /\ (utilLast.format = "2" /\ utilLast.date = DateOf(1707, 3, 15, 3, 14, 15)) =>
         utilLast.outText = "4/15/07 3:14:15 am"
    /\ (utilLast.format = "mmmm mmm mm m" /\ utilLast.date = DateOf(1707, 3, 15, 3, 14, 15)) =>
         utilLast.outText = "April Apr 04 4"
    /\ (utilLast.format = "dddd ddd dd d" /\ utilLast.date = DateOf(1707, 3, 15, 3, 14, 15)) =>
         utilLast.outText = "Friday Fri 15 15"

\* C22: number formatting is idempotent on its own output for a fixed count
\* of decimals: printing the number parsed from a printed text, with the
\* same conversion, gives that text again, for fractions that round up to
\* the next integer and for negative numbers too.
C22_PrintfOfParsedIsTheSameText ==
  numLast.op = "printf of parsed" => numLast.out = numLast.parsed

-----------------------------------------------------------------------------
\* C23: dispatch runs the source's Validate step if and only if the event is
\* a KeyStroke event with willCommit true; then the Validate step and all the
\* Calculate and Format steps it brings are over before the field's own
\* KeyStroke actions start.  For any other event only the field's own step
\* for that trigger occurs: no Validate, Calculate or Format step.
OwnTrigger == ReplaceFirstSpace(lastEvent.name)

C23_ValidateOnlyOnCommitAndFirst ==
  (ViaDispatcher /\ KnownId) =>
    /\ CommitDispatch <=>
         \E i \in DOMAIN log :
           /\ log[i].kind = "step" /\ log[i].trig = "Validate"
           /\ log[i].pos = 0 /\ log[i].field = lastEvent.id
    /\ \E i \in DOMAIN log :
         /\ log[i].kind = "step" /\ log[i].trig = OwnTrigger /\ log[i].pos = 0
         /\ \A j \in DOMAIN log :
              log[j].trig \in {"Validate", "Calculate", "Format"} => j < i
         /\ \A j \in DOMAIN log : j >= i => log[j].trig = OwnTrigger
    /\ ~CommitDispatch =>
         \A j \in DOMAIN log :
           log[j].trig = OwnTrigger /\ log[j].pos = 0 /\ log[j].field = lastEvent.id

C23_Witness ==
  /\ CommitDispatch
  /\ SourceAccepted
  /\ Len(calculationOrder) = 2
  /\ Has("step", 1, "Calculate")
  /\ Has("step", 2, "Format")
  /\ Has("script", 0, "Format")
  /\ Has("script", 0, "KeyStroke")
  /\ log[Len(log)].kind = "end" /\ log[Len(log)].trig = "KeyStroke"

\* C24: when the source's Validate accepts, the source's stored value is
\* committed, and only if it differs from the snapshot, before any target's
\* Calculate runs; the whole pass is over before the source's Format starts;
\* Format starts with event.value equal to the value committed for the
\* source, not to what the pass left; and the source's proxied value is
\* written only if Format changed event.value.
SourceCommits ==
  {i \in DOMAIN log : log[i].kind = "commit" /\ log[i].pos = 0}

SourceFormatStart ==
  CHOOSE i \in DOMAIN log :
    log[i].kind = "step" /\ log[i].pos = 0 /\ log[i].trig = "Format"

SourceFormatEnd ==
  CHOOSE i \in DOMAIN log :
    log[i].kind = "end" /\ log[i].pos = 0 /\ log[i].trig = "Format"

SourceValidateEnd ==
  CHOOSE i \in DOMAIN log :
    log[i].kind = "end" /\ log[i].pos = 0 /\ log[i].trig = "Validate"

SourceUpdates ==
  {i \in DOMAIN log : log[i].kind = "update" /\ log[i].pos = 0}

C24_CommitThenPassThenFormat ==
  (CommitDispatch /\ SourceAccepted) =>
    /\ Has("step", 0, "Format") /\ Has("end", 0, "Format")
    /\ SourceCommits # {} <=> log[SourceValidateEnd].value # InitialValue[lastEvent.id]
    /\ \A i \in SourceCommits :
         /\ log[i].field = lastEvent.id
         /\ log[i].value = log[SourceValidateEnd].value
         /\ i = SourceValidateEnd + 1
    /\ \A j \in DOMAIN log :
         log[j].pos >= 1 => (SourceValidateEnd < j /\ j < SourceFormatStart)
    /\ \A i \in SourceCommits : \A j \in DOMAIN log : log[j].pos >= 1 => i < j
    /\ log[SourceFormatStart].value = log[SourceValidateEnd].value
    /\ SourceUpdates # {} <=> log[SourceFormatEnd].value # log[SourceFormatStart].value
    /\ \A i \in SourceUpdates :
         /\ log[i].field = lastEvent.id
         /\ log[i].value = log[SourceFormatEnd].value
         /\ i = SourceFormatEnd + 1

C24_Witness ==
  /\ CommitDispatch
  /\ SourceAccepted
  /\ lastEvent.id = "A"
  /\ lastEvent.value = "k"
  /\ calculationOrder = <<"C", "B">>
  /\ SourceCommits # {}
  /\ log[SourceFormatStart].value = "k"
  /\ log[SourceFormatStart - 1].value = "X$"
  /\ sent[Len(sent)] = UpdateMsg("A", "value", "k$")
  /\ \E i \in DOMAIN sent : sent[i] = UpdateMsg("B", "value", "X$")

\* C25: in the Calculate pass, when a target's Validate step leaves rc false,
\* the target's stored value is left as it was, its Format actions do not
\* run and no Update leaves for it in that iteration, and every later entry
\* of the calculation order is still processed.
RejectedAt(p) ==
  \E i \in DOMAIN log :
    log[i].kind = "end" /\ log[i].pos = p /\ log[i].trig = "Validate" /\ ~log[i].rc

SentDuring(p) ==
  Cardinality({i \in DOMAIN log : log[i].kind = "update" /\ log[i].pos = p})

C25_RejectedTargetIsSkipped ==
  CommitDispatch =>
    \A p \in DOMAIN calculationOrder :
      RejectedAt(p) =>
        /\ \A i \in DOMAIN log :
             log[i].pos = p =>
               /\ log[i].kind \notin {"commit", "update"}
               /\ log[i].trig # "Format"
        /\ SentDuring(p) = 0
        /\ \A q \in DOMAIN calculationOrder :
             (q > p /\ calculationOrder[q] \in DOMAIN fieldValue) =>
               /\ Has("step", q, "Calculate")
               /\ Has("end", q, "Validate")

C25_Witness ==
  /\ CommitDispatch
  /\ lastEvent.id = "A"
  /\ calculationOrder = <<"B", "C">>
  /\ RejectedAt(1)
  /\ Has("script", 1, "Calculate")
  /\ fieldValue["B"] = "b"
  /\ Has("step", 2, "Calculate")
  /\ Has("step", 2, "Format")
  /\ \A i \in DOMAIN sent : sent[i].id # "B"

\* C26: in the Calculate pass a target's proxied value is written, and a
\* value Update emitted, exactly when the target's Format actions changed
\* event.value; a target whose Calculate changed its value and whose Format
\* left the value untouched has its stored value committed and no proxied
\* write.
FormatStartAt(p) ==
  CHOOSE i \in DOMAIN log :
    log[i].kind = "step" /\ log[i].pos = p /\ log[i].trig = "Format"

FormatEndAt(p) ==
  CHOOSE i \in DOMAIN log :
    log[i].kind = "end" /\ log[i].pos = p /\ log[i].trig = "Format"

C26_UpdateExactlyWhenFormatChanged ==
  CommitDispatch =>
    \A p \in DOMAIN calculationOrder :
      Has("end", p, "Format") =>
        (SentDuring(p) = 1 <=> log[FormatEndAt(p)].value # log[FormatStartAt(p)].value)

\* C27: every action-running step (own trigger, Validate, Calculate, Format)
\* starts with event.rc true, whatever the steps before left in it, and with
\* event.name, event.source and event.target set for that step before any
\* of its scripts runs.
StepEnd(i) ==
  CHOOSE j \in DOMAIN log :
    /\ j > i
    /\ log[j].kind = "end"
    /\ \A k \in (i + 1)..(j - 1) : log[k].kind # "end"

C27_StepStartsFresh ==
  (ViaDispatcher /\ KnownId) =>
    \A i \in DOMAIN log :
      log[i].kind = "step" =>
        /\ log[i].rc
        /\ \E j \in DOMAIN log : j > i /\ log[j].kind = "end"
        /\ log[i].trig = log[StepEnd(i)].trig
        /\ log[i].field = log[StepEnd(i)].field
        /\ log[i].field = IF log[i].pos = 0 THEN lastEvent.id
                          ELSE calculationOrder[log[i].pos]
        /\ log[i].source = IF log[i].trig = "Calculate" THEN lastEvent.id
                           ELSE log[i].field
        /\ \A k \in (i + 1)..(StepEnd(i) - 1) :
             log[k].kind = "script" =>
               (log[k].trig = log[i].trig /\ log[k].field = log[i].field)

C27_Witness ==
  /\ CommitDispatch
  /\ SourceAccepted
  /\ lastEvent.id = "A"
  /\ calculationOrder = <<"B", "C">>
  /\ RejectedAt(1)
  /\ \E i \in DOMAIN log :
       /\ log[i].kind = "step" /\ log[i].pos = 2 /\ log[i].trig = "Calculate"
       /\ log[i].rc /\ log[i].source = "A" /\ log[i].field = "C"
       /\ log[i - 1].kind = "end" /\ ~log[i - 1].rc
  /\ Has("script", 2, "Calculate")

\* C28: a step for a field that has no action for the requested trigger is a
\* silent no-op: no script runs, no message is sent, neither the field's
\* value nor event.value changes, and the step reports acceptance (rc true).
C28_StepWithoutActionsIsSilent ==
  (ViaDispatcher /\ KnownId) =>
    \A i \in DOMAIN log :
      (log[i].kind = "step" /\ ~HasActions(log[i].field, log[i].trig)) =>
        /\ i + 1 \in DOMAIN log
        /\ log[i + 1].kind = "end"
        /\ log[i + 1].field = log[i].field
        /\ log[i + 1].trig = log[i].trig
        /\ log[i + 1].value = log[i].value
        /\ log[i + 1].rc

C28_Witness ==
  /\ CommitDispatch
  /\ lastEvent.id = "A"
  /\ lastEvent.value = "k"
  /\ actions["A"] = Plain
  /\ calculationOrder = <<>>
  /\ Len(log) = 7
  /\ \A i \in DOMAIN log : log[i].kind \in {"step", "end", "commit"}
  /\ sent = <<>>
  /\ docEvent.value = "k"
  /\ docEvent.rc

\* C29: the normalization of the trigger name strips all the spaces: for an
\* inbound name that differs from a key of the field's actions only by
\* spaces, one or several, dispatch runs the actions registered under the
\* key without spaces.
RECURSIVE WithoutSpaces(_)
WithoutSpaces(name) ==
  IF name = "" THEN ""
  ELSE IF SubSeq(name, 1, 1) = " " THEN WithoutSpaces(SubSeq(name, 2, Len(name)))
  ELSE SubSeq(name, 1, 1) \o WithoutSpaces(SubSeq(name, 2, Len(name)))

C29_EverySpaceIsStripped ==
  (ViaDispatcher /\ KnownId /\ HasActions(lastEvent.id, WithoutSpaces(lastEvent.name))) =>
    \E i \in DOMAIN log :
      /\ log[i].kind = "script"
      /\ log[i].pos = 0
      /\ log[i].field = lastEvent.id
      /\ log[i].trig = WithoutSpaces(lastEvent.name)

\* C30: exactly one Event is created per dispatch of a known field: it is
\* stored in Doc._event at the start of the dispatch, Doc._event is not
\* assigned again before the dispatch returns, and every Validate, Calculate
\* and Format step of the chain receives and mutates that same object.
C30_OneEventPerDispatch ==
  (ViaDispatcher /\ KnownId) =>
    /\ docEvent.serial = 1
    /\ docEvent.willCommit = lastEvent.willCommit
    /\ \A i \in DOMAIN log : log[i].kind = "step" => log[i].idx = docEvent.serial
    /\ docEvent.name = log[Len(log)].trig
    /\ docEvent.target = log[Len(log)].field
    /\ docEvent.value = log[Len(log)].value
    /\ docEvent.rc = log[Len(log)].rc
    /\ \A i \in DOMAIN log :
         (log[i].kind = "step" /\ i > 1 /\ log[i].trig \in {"Validate", OwnTrigger}) =>
           log[i].value = log[i - 1].value

C30_Witness ==
  /\ CommitDispatch
  /\ SourceAccepted
  /\ lastEvent.id = "A"
  /\ calculationOrder = <<"B", "C">>
  /\ docEvent.serial = 1
  /\ Cardinality({i \in DOMAIN log : log[i].kind = "step" /\ log[i].idx = 1}) = 9
  /\ docEvent.name = "KeyStroke"
  /\ docEvent.value = "b"

\* C31: a Calculate pass leaves the calculation order as it is and processes
\* each occurrence of a registered id exactly once, in list order, without a
\* second run, also when the fields read each other; a dispatch is over
\* after at most three steps for the source and three per entry of the
\* calculation order.
StepsAt(p, trig) ==
  {i \in DOMAIN log : log[i].kind = "step" /\ log[i].pos = p /\ log[i].trig = trig}

AllSteps == {i \in DOMAIN log : log[i].kind = "step"}

EachEntryOnce ==
  (ViaDispatcher /\ KnownId) =>
    /\ \A p \in DOMAIN calculationOrder :
         /\ Cardinality(StepsAt(p, "Calculate")) =
              (IF CommitDispatch /\ SourceAccepted
                    /\ calculationOrder[p] \in DOMAIN fieldValue THEN 1 ELSE 0)
         /\ Cardinality(StepsAt(p, "Validate")) = Cardinality(StepsAt(p, "Calculate"))
         /\ Cardinality(StepsAt(p, "Format")) <= 1
         /\ \A i \in StepsAt(p, "Calculate") : log[i].field = calculationOrder[p]
    /\ \A i, j \in AllSteps :
         (i < j /\ log[i].pos >= 1 /\ log[j].pos >= 1) => log[i].pos <= log[j].pos
    /\ Cardinality(AllSteps) <= 3 * Len(calculationOrder) + 3

C31_EveryEntryOnceAndOrderKept ==
  [][calculationOrder' = calculationOrder]_vars /\ []EachEntryOnce

C31_Witness ==
  /\ CommitDispatch
  /\ SourceAccepted
  /\ lastEvent.id = "C"
  /\ actions["A"] = Mirror
  /\ actions["B"] = Reader
  /\ calculationOrder = <<"B", "A">>
  /\ Cardinality(StepsAt(1, "Calculate")) = 1
  /\ Cardinality(StepsAt(2, "Calculate")) = 1
  /\ Has("read", 1, "Calculate")
  /\ Has("read", 2, "Calculate")
  /\ Cardinality(AllSteps) = 9

\* C32: compiled date-parse patterns are cached by their literal format
\* string: once scand has been called with a format, the cache holds the
\* pair compiled for it, so that later calls with that format find it
\* without compiling again and return what the first call returned.
C32_ScandCachesTheCompiledFormat ==
  (utilLast.op = "scand" /\ utilLast.format \in FullFormats) =>
    /\ scandCache.present
    /\ Shorthand(utilLast.format) \in scandCache.keys

\* C33: with an AM/PM token in the format scand turns the 12-hour value into
\* its 24-hour equivalent: the hour of the result is in 0..23, pm adds 12 to
\* the hours 1..11 and 12 pm is hour 12 of the same day, never hour 24 nor
\* the day after.
C33_TwelveHourClock ==
  (utilLast.op = "scand" /\ utilLast.format \in {"2", "m/d/yy h:MM:ss tt"}) =>
    /\ utilLast.text = "4/15/07 12:14:15 pm" =>
         /\ utilLast.threw = "none"
         /\ utilLast.outDate = DateOf(2007, 3, 15, 12, 14, 15)
    /\ utilLast.text = "4/15/07 3:14:15 am" =>
         /\ utilLast.threw = "none"
         /\ utilLast.outDate.hours = 3
    /\ utilLast.threw = "none" => utilLast.outDate.hours \in 0..23

\* C34: AFMakeNumber returns a finite number for every input, a string, a
\* number or a value of another type: what is not numeric, NaN or not finite
\* comes back as 0, and a text is read trimmed with its ',' as the decimal
\* point.
C34_AFMakeNumberIsFinite ==
  callLast.op = "AFMakeNumber" =>
    /\ ~callLast.number.nan
    /\ ~callLast.number.inf
    /\ callLast.input.type = "number" /\ ~isFinite(callLast.input.number)
         => callLast.number = Num(0)
    /\ callLast.input.type = "undefined" => callLast.number = Num(0)
    /\ callLast.input = StringValue(" 2,5 ") => callLast.number = Num(2500)
    /\ (callLast.input.type = "string"
          /\ callLast.input.str \in {"abc", "", "Infinity", "-Infinity", "NaN"})
         => callLast.number = Num(0)

\* the text of a number, as AFSimple_Calculate writes it
Shown(res) == MillionthsToString(RoundMillionths(res))

Largest(values) ==
  CHOOSE v \in {values[i] : i \in DOMAIN values} :
    \A i \in DOMAIN values : ~Below(v, values[i])

Smallest(values) ==
  CHOOSE v \in {values[i] : i \in DOMAIN values} :
    \A i \in DOMAIN values : ~Below(values[i], v)

RECURSIVE SumFrom(_, _)
SumFrom(values, i) ==
  IF i > Len(values) THEN Ratio(0, 1) ELSE Plus(values[i], SumFrom(values, i + 1))

RECURSIVE ProductFrom(_, _)
ProductFrom(values, i) ==
  IF i > Len(values) THEN Ratio(1, 1) ELSE Times(values[i], ProductFrom(values, i + 1))

Aggregate(cFunction, values) ==
  CASE cFunction = "MAX" -> Largest(values)
    [] cFunction = "MIN" -> Smallest(values)
    [] cFunction = "SUM" -> SumFrom(values, 1)
    [] cFunction = "PRD" -> ProductFrom(values, 1)
    [] cFunction = "AVG" -> Ratio(SumFrom(values, 1).num,
                                  SumFrom(values, 1).den * Len(values))

\* C40: AFSimple_Calculate on text fields leaves in event.value the text of
\* the aggregate of their numbers: the largest for MAX and the smallest for
\* MIN, also when none is positive, the sum, the product, the mean; "0" for
\* no field; and a function it does not know raises a TypeError with
\* event.value as it was.
C40_AFSimpleCalculateAggregates ==
  callLast.op = "AFSimple_Calculate" =>
    IF callLast.cFunction \notin FunctionNames
      THEN callLast.threw = "TypeError" /\ callLast.value = EventBefore
    ELSE /\ callLast.threw = "none"
         /\ callLast.value =
              IF callLast.cFields = <<>> THEN "0"
              ELSE Shown(Aggregate(callLast.cFunction, valuesOf(callLast.cFields, 1)))

\* the characters of the template, one command each
CharactersOf(cFormat) == [k \in 1..Len(cFormat) |-> SubSeq(cFormat, k, k)]

\* the walk over the characters of the template
Walked(cFormat, cSource) ==
  printxLoop([buf |-> "", i |-> 0, currCase |-> 0, escaped |-> FALSE, broken |-> FALSE],
             cSource, CharactersOf(cFormat), 1).buf

\* C35: printx walks the template character by character with one cursor
\* into the source: ?, A, X and 9 emit the next source character of their
\* class in the current case, * the remainder, > < = switch the case, a
\* backslash makes the next character a literal, and any other character is
\* copied.
C35_PrintxWalksTheTemplate ==
  utilLast.op = "printx" =>
    /\ utilLast.outText = Walked(utilLast.format, utilLast.text)
    /\ (utilLast.format = "??" /\ utilLast.text = "ab1") => utilLast.outText = "ab"
    /\ (utilLast.format = ">A<A=A" /\ utilLast.text = "-xY2") => utilLast.outText = "Xy"
    /\ (utilLast.format = "9\\-9" /\ utilLast.text = "1a2") => utilLast.outText = "1-2"
    /\ (utilLast.format = "X*" /\ utilLast.text = "-xY2") => utilLast.outText = "xY2"

\* the entries of the history about field f
CommitsOf(f) == {i \in DOMAIN log : log[i].kind = "commit" /\ log[i].field = f}

UpdatesOf(f) == {i \in DOMAIN log : log[i].kind = "update" /\ log[i].field = f}

LastOf(entries) == CHOOSE i \in entries : \A j \in entries : j <= i

\* the value the dispatch finally committed to f: the one it had, if none
FinallyCommitted(f) ==
  IF CommitsOf(f) = {} THEN InitialValue[f] ELSE log[LastOf(CommitsOf(f))].value

\* what the Format actions of f make of value v
FormatOf(f, v) ==
  Field_runActions([Machine EXCEPT !.ev = [name |-> "Format", rc |-> TRUE, source |-> f,
                                           target |-> f, value |-> v,
                                           willCommit |-> TRUE, serial |-> 0]],
                   f).ev.value

EveryValidateAccepted ==
  \A i \in DOMAIN log : (log[i].kind = "end" /\ log[i].trig = "Validate") => log[i].rc

\* C37: after a commit dispatch in which every Validate step accepts, the
\* last value Update emitted for a field carries the formatted form of the
\* value finally committed to that field, also when the source is in the
\* calculation order and its Calculate step changes its value.
C37_LastUpdateIsFormatOfCommitted ==
  (CommitDispatch /\ EveryValidateAccepted) =>
    \A f \in FieldIds :
      UpdatesOf(f) # {} =>
        log[LastOf(UpdatesOf(f))].value = FormatOf(f, FinallyCommitted(f))

CalculateStartAt(p) ==
  CHOOSE i \in DOMAIN log :
    log[i].kind = "step" /\ log[i].pos = p /\ log[i].trig = "Calculate"

CalculateEndAt(p) ==
  CHOOSE i \in DOMAIN log :
    log[i].kind = "end" /\ log[i].pos = p /\ log[i].trig = "Calculate"

ValidateStartAt(p) ==
  CHOOSE i \in DOMAIN log :
    log[i].kind = "step" /\ log[i].pos = p /\ log[i].trig = "Validate"

ValidateEndAt(p) ==
  CHOOSE i \in DOMAIN log :
    log[i].kind = "end" /\ log[i].pos = p /\ log[i].trig = "Validate"

CommittedAt(p) == \E i \in DOMAIN log : log[i].kind = "commit" /\ log[i].pos = p

\* C38: in the Calculate pass the rc the Calculate actions leave is
\* overwritten before the target's Validate starts and decides nothing: the
\* Validate step follows and starts with rc true, and when Validate leaves rc
\* true the value is committed if it changed, Format runs and the Update
\* leaves if the formatted value differs, whatever rc Calculate left.
C38_OnlyValidateRcDecides ==
  CommitDispatch =>
    \A p \in DOMAIN calculationOrder :
      Has("end", p, "Calculate") =>
        /\ Has("step", p, "Validate") /\ Has("end", p, "Validate")
        /\ log[ValidateStartAt(p)].rc
        /\ log[ValidateStartAt(p)].value = log[CalculateEndAt(p)].value
        /\ log[ValidateEndAt(p)].rc =>
             /\ Has("step", p, "Format") /\ Has("end", p, "Format")
             /\ CommittedAt(p) <=>
                  log[ValidateEndAt(p)].value # log[CalculateStartAt(p)].value
             /\ SentDuring(p) = 1 <=>
                  log[FormatEndAt(p)].value # log[CalculateStartAt(p)].value
        /\ ~log[ValidateEndAt(p)].rc => ~CommittedAt(p)

C38_Witness ==
  /\ CommitDispatch
  /\ calculationOrder = <<"A">>
  /\ lastEvent.id = "B"
  /\ Has("end", 1, "Calculate")
  /\ ~log[CalculateEndAt(1)].rc
  /\ log[CalculateEndAt(1)].value = "X"
  /\ log[ValidateEndAt(1)].rc
  /\ CommittedAt(1)
  /\ fieldValue["A"] = "b$"
  /\ sent[Len(sent)] = UpdateMsg("A", "value", "b$")

\* the listener a type was given at the creation of the Field is a script
Registered(name) ==
  /\ HasListenerType(name)
  /\ created[ListenerType(name)] = "script"

\* C36: listener registration is per trigger type: a Field created with
\* actions for some types only is not listening for any other type, and an
\* Event message for a type without registered actions runs none of the
\* Field's actions.
C36_ListenersArePerType ==
  /\ lsnLast.op = "_isListeningFor" => (lsnLast.result <=> Registered(lsnLast.name))
  /\ lsnLast.op = "Event" =>
       /\ ~Registered(lsnLast.name) => lsnLast.ran = <<>>
       /\ Registered(lsnLast.name) =>
            lsnLast.ran = <<createAction(ListenerType(lsnLast.name), "script")>>

\* C39: the listener of the sandbox page hands a message to
\* MessageHandler.handle only if its origin is the window's own protocol and
\* host: a step that creates the MessageHandler, registers an object, runs a
\* script or changes anything else of the handler is the step of a message of
\* that origin, whatever messages came before; and the MessageHandler, once
\* there, answers to that origin.
C39_OnlyOwnOriginIsHandled ==
  /\ [][(messageHandler' # messageHandler \/ hObjects' # hObjects
           \/ hLast' # hLast \/ hCount' # hCount)
          => (listening /\ pageLast'.origin = OwnOrigin /\ received' = received + 1)]_vars
  /\ [](messageHandler # NoHandler => messageHandler.origin = OwnOrigin)
  /\ [](hCount <= received)

C39_Witness ==
  /\ received = 3
  /\ hCount = 1
  /\ pageLast.origin = "https://evil.test"
  /\ pageLast.data.name = "Event"
  /\ messageHandler # NoHandler
  /\ DOMAIN hObjects = {"1R"}
  /\ hLast.message.name = "Create"

====
